---- MODULE Spec2Model ----
(***************************************************************************)
(* State-machine model of the vanmoi monitoring server: the agent         *)
(* endpoints (register, info, report, WebSocket stream), the session      *)
(* middleware and the admin/auth handlers, over the PostgreSQL tables     *)
(* users, sessions, clients and records.                                  *)
(*                                                                         *)
(* Every database call of a handler is one atomic step (one SQL           *)
(* statement).  upload_report and handle_agent_ws are tasks with a        *)
(* program counter, one step per await on the database or the socket;     *)
(* the other handlers are modelled as one step each.                      *)
(*                                                                         *)
(* Option<T> is a sequence of length at most one: None = <<>>,            *)
(* Some(x) = <<x>>.  Uuid::new_v4()/gen_random_uuid() draw fresh values:  *)
(* the n-th row of a table gets the uuid n.                               *)
(***************************************************************************)
EXTENDS Integers, Sequences, FiniteSets, TLC

\* ---------------------------------------------------------------- bounds
\* Every action that creates something takes its bound as a parameter, so
\* that each specification below explores the part of the system it is
\* about as deeply as it can.  Spec runs every operation:
MaxClients == 1       \* agent identities ever created
MaxSessions == 1      \* sessions ever created
MaxConns == 1         \* WebSocket connections ever upgraded
MaxFrames == 1        \* messages received on one connection
MaxRecords == 1       \* rows ever inserted into records
MaxTime == 1          \* clock ticks
\* SpecStream runs the agents' streams alone:
StreamClients == 2
StreamConns == 2
StreamFrames == 2
StreamRecords == 2
StreamTime == 2
\* SpecAuth runs the requests that create, use and delete credentials:
AuthClients == 2
AuthSessions == 2
AuthTime == 3
RaceClients == 1
RaceConns == 1
RaceFrames == 1
RaceRecords == 2
RaceTime == 2
\* SpecPublic runs the public read routes next to what changes their input:
PubClients == 2
PubSessions == 1
PubRecords == 2
PubTime == 1
\* SpecCross runs the reports, info uploads and streams of two agents:
CrossClients == 2
CrossConns == 2
CrossFrames == 1
CrossRecords == 2
CrossTime == 1
\* SpecInfo runs the info uploads of two agents next to a report:
InfoClients == 2
InfoRecords == 1
InfoTime == 1
\* SpecUser runs the start of the server and the operators' accounts:
UserSessions == 3
UserTime == 3
\* SpecFail runs one stream against a database that fails:
FailClients == 1
FailConns == 1
FailFrames == 2
FailRecords == 2
FailTime == 1

\* ------------------------------------------------------------- constants
\* Config::jwt_expires_secs, as set by the environment (JWT_EXPIRES_SECS=2),
\* one clock tick being one second.
JwtExpiresSecs == 2

None == <<>>
Some(x) == <<x>>

VARIABLES
    up,         \* the server process is running (main reached axum::serve)
    dbUp,       \* the PostgreSQL pool answers; otherwise every call is Err
    now,        \* NOW() / Utc::now()
    users,      \* table users: set of rows
    sessions,   \* table sessions: set of rows
    nSessions,  \* sessions ever created (uuid source)
    clients,    \* table clients: function id -> row
    nClients,   \* clients ever created (uuid source)
    records,    \* table records in id (BIGSERIAL) order: sequence of rows
    nRecords,   \* records ever inserted (BIGSERIAL)
    conn,       \* the handle_agent_ws tasks, one per upgraded socket
    rep         \* the in-flight upload_report request

vars == <<up, dbUp, now, users, sessions, nSessions, clients, nClients,
          records, nRecords, conn, rep>>

db == <<users, sessions, nSessions, clients, nClients, records, nRecords>>

\* The task slots: as many as the widest specification (SpecStream) upgrades.
ConnIds == 1..StreamConns

\* ------------------------------------------------------- tokens, requests
\* create_client: format!("vmoi_{}", Uuid::new_v4()) -- a string is the
\* sequence of its parts.
AgentToken(n) == <<"vmoi_", n>>

\* login: format!("vmses_{}", uuid::Uuid::new_v4())
SessionToken(n) == <<"vmses_", n>>

\* A bearer value nobody issued.
JunkToken == <<"junk", 0>>

\* The bearer values a caller may present: every token the server can issue
\* within the bounds (issued, not yet issued, or already deleted) and junk.
Bearers ==
    {AgentToken(n) : n \in 1..StreamClients}
        \cup {SessionToken(n) : n \in 1..AuthSessions}
        \cup {JunkToken}

\* A header value: its text, and whether HeaderValue::to_str accepts it
\* (visible ASCII only).
HeaderValue(ascii, text) == [ascii |-> ascii, text |-> text]

\* str::strip_prefix: the rest of the string when it starts with the prefix.
StripPrefix(text, prefix) ==
    IF Len(text) >= 1 /\ text[1] = prefix THEN Some(Tail(text)) ELSE None

\* One element of cookies.split(';'): "name=value", or "name" without '='.
CookiePair(name, value) == [name |-> name, eq |-> TRUE, value |-> value]

\* The requests of the model: an optional Authorization header and an
\* optional Cookie header (the list of its ';'-separated parts).
AuthorizationValues ==
    {HeaderValue(TRUE, <<"Bearer ">> \o b) : b \in Bearers}
        \cup {HeaderValue(TRUE, AgentToken(1)),
              HeaderValue(FALSE, <<"Bearer ">> \o AgentToken(1))}

CookieValues ==
    {HeaderValue(TRUE, <<CookiePair("token", b)>>) :
        b \in {SessionToken(1), AgentToken(1)}}

Request(authorization, cookie) ==
    [authorization |-> authorization, cookie |-> cookie]

Requests ==
    {Request(a, c) : a \in {None} \cup {Some(v) : v \in AuthorizationValues},
                     c \in {None} \cup {Some(v) : v \in CookieValues}}

\* A faulty extraction that takes a header without the "Bearer " prefix
\* as the token itself.
extract_agent_token_NoPrefix(req) ==
    IF req.authorization # None /\ req.authorization[1].ascii
    THEN IF StripPrefix(req.authorization[1].text, "Bearer ") # None
         THEN StripPrefix(req.authorization[1].text, "Bearer ")
         ELSE Some(req.authorization[1].text)
    ELSE None

\* A faulty extraction that falls back to the cookie named "token", as the
\* extraction for human sessions does.
extract_agent_token_OrCookie(req) ==
    IF /\ req.authorization # None
       /\ req.authorization[1].ascii
       /\ StripPrefix(req.authorization[1].text, "Bearer ") # None
    THEN StripPrefix(req.authorization[1].text, "Bearer ")
    ELSE IF /\ req.cookie # None
            /\ req.cookie[1].ascii
            /\ req.cookie[1].text # <<>>
            /\ req.cookie[1].text[1].name = "token"
         THEN Some(req.cookie[1].text[1].value)
         ELSE None

\* api/client.rs extract_agent_token: Ok(token) = Some(token),
\* Err(AppError::Unauthorized) = None.
extract_agent_token(req) ==
    IF /\ req.authorization # None
       /\ req.authorization[1].ascii
       /\ StripPrefix(req.authorization[1].text, "Bearer ") # None
    THEN StripPrefix(req.authorization[1].text, "Bearer ")
    ELSE None

\* The first pair of a Cookie header named "token" that has a value.
RECURSIVE FirstTokenCookie(_)
FirstTokenCookie(pairs) ==
    IF pairs = <<>> THEN None
    ELSE IF Head(pairs).eq /\ Head(pairs).name = "token"
         THEN Some(Head(pairs).value)
         ELSE FirstTokenCookie(Tail(pairs))

\* A faulty extraction that tries the cookie first and the Authorization
\* header after it.
extract_token_CookieFirst(req) ==
    IF /\ req.cookie # None
       /\ req.cookie[1].ascii
       /\ FirstTokenCookie(req.cookie[1].text) # None
    THEN FirstTokenCookie(req.cookie[1].text)
    ELSE IF /\ req.authorization # None
            /\ req.authorization[1].ascii
         THEN StripPrefix(req.authorization[1].text, "Bearer ")
         ELSE None

\* middleware/auth.rs extract_token: the Authorization header first, then
\* the cookie.
extract_token(req) ==
    IF /\ req.authorization # None
       /\ req.authorization[1].ascii
       /\ StripPrefix(req.authorization[1].text, "Bearer ") # None
    THEN StripPrefix(req.authorization[1].text, "Bearer ")
    ELSE IF req.cookie # None /\ req.cookie[1].ascii
         THEN FirstTokenCookie(req.cookie[1].text)
         ELSE None

\* ------------------------------------------------------------ the tables
\* fetch_optional over a set of matching rows.
FetchOptional(rows) == IF rows = {} THEN None ELSE Some(CHOOSE r \in rows : TRUE)

\* A faulty schema whose online column defaults to TRUE.
NewClient_Online(id, name) ==
    [id |-> id, token |-> AgentToken(id), name |-> name, cpu_name |-> "",
     ipv4 |-> None, ipv6 |-> None, remark |-> "", hidden |-> FALSE,
     online |-> TRUE, last_seen_at |-> None]

\* INSERT INTO clients (name, token): every other column takes its default
\* (schema.rs: hidden FALSE, online FALSE, last_seen_at NULL, ...).
NewClient(id, name) ==
    [id |-> id, token |-> AgentToken(id), name |-> name, cpu_name |-> "",
     ipv4 |-> None, ipv6 |-> None, remark |-> "", hidden |-> FALSE,
     online |-> FALSE, last_seen_at |-> None]

\* A faulty lookup that compares the prefix of the token only:
\* SELECT * FROM clients WHERE token LIKE 'vmoi_%' for a 'vmoi_..' token.
find_client_by_token_PrefixOnly(token) ==
    FetchOptional({clients[id] :
        id \in {i \in DOMAIN clients : clients[i].token[1] = token[1]}})

\* SELECT * FROM clients WHERE token = $1
find_client_by_token(token) ==
    FetchOptional({clients[id] : id \in {i \in DOMAIN clients : clients[i].token = token}})

\* SELECT * FROM clients WHERE id = $1
find_client_by_id(id) ==
    IF id \in DOMAIN clients THEN Some(clients[id]) ELSE None

\* A faulty statement: UPDATE clients SET online = $2 WHERE id = $1
update_client_online_KeepsLastSeen(id, online) ==
    [i \in DOMAIN clients |->
        IF i = id THEN [clients[i] EXCEPT !.online = online] ELSE clients[i]]

\* A faulty statement without the WHERE clause:
\* UPDATE clients SET online = $2, last_seen_at = NOW()
update_client_online_NoWhere(id, online) ==
    [i \in DOMAIN clients |->
        [clients[i] EXCEPT !.online = online, !.last_seen_at = Some(now)]]

\* A faulty statement that records the time only when the agent is seen:
\* last_seen_at = CASE WHEN $1 THEN NOW() ELSE last_seen_at END
update_client_online_SeenOnlyWhenOnline(id, online) ==
    [i \in DOMAIN clients |->
        IF i = id
        THEN [clients[i] EXCEPT !.online = online,
                                !.last_seen_at = IF online THEN Some(now) ELSE @]
        ELSE clients[i]]

\* UPDATE clients SET online = $2, last_seen_at = NOW() WHERE id = $1
update_client_online(id, online) ==
    [i \in DOMAIN clients |->
        IF i = id
        THEN [clients[i] EXCEPT !.online = online, !.last_seen_at = Some(now)]
        ELSE clients[i]]

\* A faulty lookup that leaves the expiry to the caller:
\* SELECT * FROM sessions WHERE token = $1
find_session_by_token_NoExpiry(token) ==
    FetchOptional({s \in sessions : s.token = token})

\* A faulty lookup over one namespace of credentials: the token of an
\* agent is found as a session of the first user.
find_session_by_token_SharedNamespace(token) ==
    FetchOptional(
        {s \in sessions : s.token = token /\ s.expires_at > now}
            \cup {[id |-> 0, user_id |-> 1, token |-> clients[i].token,
                    expires_at |-> now + 1] :
                       i \in {j \in DOMAIN clients : clients[j].token = token}})

\* SELECT * FROM sessions WHERE token = $1 AND expires_at > NOW()
find_session_by_token(token) ==
    FetchOptional({s \in sessions : s.token = token /\ s.expires_at > now})

\* SELECT * FROM users WHERE id = $1
find_user_by_id(id) == FetchOptional({u \in users : u.id = id})

\* SELECT * FROM users WHERE username = $1
find_user_by_username(username) ==
    FetchOptional({u \in users : u.username = username})

\* -------------------------------------------------------------- responses
\* error.rs AppError::into_response: the status code and the "error" field
\* of the body for each error kind.
into_response(kind) ==
    CASE kind = "Unauthorized" -> [status |-> 401, error |-> "UNAUTHORIZED"]
      [] kind = "Forbidden"    -> [status |-> 403, error |-> "FORBIDDEN"]
      [] kind = "NotFound"     -> [status |-> 404, error |-> "NOT_FOUND"]
      [] kind = "BadRequest"   -> [status |-> 400, error |-> "BAD_REQUEST"]
      [] kind = "Conflict"     -> [status |-> 409, error |-> "CONFLICT"]
      [] kind = "Database"     -> [status |-> 500, error |-> "DATABASE_ERROR"]
      [] kind = "Internal"     -> [status |-> 500, error |-> "INTERNAL_ERROR"]

\* The response of a handler that returned Err(kind).
Failed(kind) == into_response(kind)

\* The response of a handler that returned Ok, or the bare status code a
\* middleware returned.
Status(status) == [status |-> status, error |-> ""]

\* ------------------------------------------------- measurement samples
\* models.rs RecordInput: the fields without #[serde(default)].
RequiredFields ==
    {"cpu", "ram", "ram_total", "disk", "disk_total", "net_in", "net_out",
     "net_total_up", "net_total_down"}

\* A text payload: whether it is a JSON object at all, the RecordInput
\* fields it gives as numbers, the ones it gives as something else, and the
\* values of cpu and gpu.
Text(json, nums, others, cpu, gpu) ==
    [json |-> json, nums |-> nums, others |-> others, cpu |-> cpu, gpu |-> gpu]

Texts ==
    {Text(TRUE, RequiredFields \cup {"gpu"}, {}, 1, 1),   \* a full sample
     Text(TRUE, RequiredFields, {}, 1, 0),                \* gpu left out
     Text(TRUE, RequiredFields \ {"cpu"}, {"cpu"}, 0, 0), \* "cpu": "high"
     Text(TRUE, {"cpu"}, {}, 1, 0),                       \* fields missing
     Text(FALSE, {}, {}, 0, 0)}                           \* not JSON

\* serde_json::from_str::<RecordInput>: Ok(record) = Some(record),
\* Err = None.  A missing #[serde(default)] field is zero.
ParseRecordInput(text) ==
    IF /\ text.json
       /\ text.others = {}
       /\ RequiredFields \subseteq text.nums
    THEN Some([cpu |-> text.cpu,
               gpu |-> IF "gpu" \in text.nums THEN text.gpu ELSE 0])
    ELSE None

\* What receiver.next().await yields: Some(Ok(Message::..)), Some(Err(e)) or
\* None when the stream has ended.
Message(kind, text, data) == [kind |-> kind, text |-> text, data |-> data]

NoText == Text(FALSE, {}, {}, 0, 0)

Received ==
    {Message("Text", t, 0) : t \in Texts}
        \cup {Message("Ping", NoText, d) : d \in {7}}
        \cup {Message(k, NoText, 0) : k \in {"Binary", "Close", "Err", "None"}}

\* INSERT INTO records (...): the new row, appended in id order.  from and
\* frame record which task inserted the row (0 = upload_report) and which
\* of its messages it came from.
insert_record(client_id, record, from, frame) ==
    Append(records,
           [id |-> nRecords + 1, client_id |-> client_id, time |-> now,
            cpu |-> record.cpu, gpu |-> record.gpu,
            from |-> from, frame |-> frame])

\* ------------------------------------------------------------- the tasks
\* A handle_agent_ws task.  pc is the await it is suspended at:
\*   "none"     no socket has been upgraded in this slot
\*   "online"   spawned by on_upgrade, before update_client_online(true)
\*   "recv"     receiver.next()
\*   "insert"   insert_record of the parsed sample rec
\*   "refresh"  update_client_online(true) after the insert
\*   "pong"     sender.send(Message::Pong(data))
\*   "offline"  the loop has ended, before update_client_online(false)
\*   "done"     the task returned
\*   "dropped"  the task was dropped with the runtime (process exit)
\* client_id, rec (the parsed sample) and data (the ping payload) are the
\* task's locals.  The rest is bookkeeping: nrecv counts the messages
\* received, bad those that were text but no sample, t0 is the time of the
\* upgrade (kept until the first status write), marked tells that the first
\* update_client_online(true) changed the agent's row, exit is what ended
\* the receive loop ("" while it runs): "Close", "Err" (Some(Err(e))),
\* "End" (None: the stream has ended) or "Pong" (the pong was not sent);
\* pong is the payload of the last Message::Pong the sender has sent.
ConnTask(pc, client_id, nrecv, bad, rec, data, t0, marked, exit, pong) ==
    [pc |-> pc, client_id |-> client_id, nrecv |-> nrecv, bad |-> bad,
     rec |-> rec, data |-> data, t0 |-> t0, marked |-> marked, exit |-> exit,
     pong |-> pong]

NoConn == ConnTask("none", 0, 0, 0, None, None, 0, FALSE, "", None)

LivePcs == {"online", "recv", "insert", "refresh", "pong", "offline"}

\* The upload_report request in flight: "idle", or suspended before
\* update_client_online ("online") or before insert_record ("insert").
ReportTask(pc, client_id, body) ==
    [pc |-> pc, client_id |-> client_id, body |-> body]

NoReport == ReportTask("idle", 0, None)

\* The slot of the next upgraded socket.
FreeConn == {c \in ConnIds : conn[c].pc = "none" /\ \A d \in 1..(c - 1) : conn[d].pc # "none"}

Init ==
    /\ up = FALSE
    /\ dbUp = TRUE
    /\ now = 0
    /\ users = {}
    /\ sessions = {}
    /\ nSessions = 0
    /\ clients = <<>>
    /\ nClients = 0
    /\ records = <<>>
    /\ nRecords = 0
    /\ conn = [c \in ConnIds |-> NoConn]
    /\ rep = NoReport

\* --------------------------------------------------------- environment
\* The clock advances.
Tick(maxTime) ==
    /\ now < maxTime
    /\ now' = now + 1
    /\ UNCHANGED <<up, dbUp, db, conn, rep>>

\* The database becomes unreachable: every sqlx call returns Err.
DbFail ==
    /\ dbUp
    /\ dbUp' = FALSE
    /\ UNCHANGED <<up, now, db, conn, rep>>

\* The database is reachable again.
DbRecover ==
    /\ ~dbUp
    /\ dbUp' = TRUE
    /\ UNCHANGED <<up, now, db, conn, rep>>

\* ---------------------------------------------------------------- main.rs
AdminUsername == "admin"
AdminPassword == "secret"

\* api/auth.rs hash_password, and Argon2::verify_password: the hash of a
\* password verifies that password and no other (the salt is left out).
hash_password(password) == <<"$argon2id$", password>>
verify_password(password, hash) == hash = hash_password(password)

\* INSERT INTO users (username, password_hash)
create_user(rows, username, password_hash) ==
    rows \cup {[id |-> Cardinality(rows) + 1, username |-> username,
                password_hash |-> password_hash]}

\* SELECT COUNT(*) FROM users: count > 0
has_users(rows) == Cardinality(rows) > 0

\* A faulty start that brings the bootstrap account back to the configured
\* password whenever it runs.
init_admin_user_ResetsPassword(rows) ==
    IF has_users(rows)
    THEN {IF u.username = AdminUsername
          THEN [u EXCEPT !.password_hash = hash_password(AdminPassword)]
          ELSE u : u \in rows}
    ELSE create_user(rows, AdminUsername, hash_password(AdminPassword))

\* main.rs init_admin_user: nothing if has_users(), else create the admin.
init_admin_user(rows) ==
    IF has_users(rows) THEN rows
    ELSE create_user(rows, AdminUsername, hash_password(AdminPassword))

\* main: connect, init_schema, init_admin_user, then axum::serve.  With the
\* database down Database::connect fails and the process exits at once.
Main ==
    /\ ~up
    /\ dbUp
    /\ users' = init_admin_user(users)
    /\ up' = TRUE
    /\ UNCHANGED <<dbUp, now, sessions, nSessions, clients, nClients,
                   records, nRecords, conn, rep>>

\* The process exits (main.rs 53: axum::serve without graceful shutdown, no
\* signal handler): the runtime drops every task at the await it is
\* suspended at; nothing after that await runs.
Shutdown ==
    /\ up
    /\ up' = FALSE
    /\ conn' = [c \in ConnIds |->
                  IF conn[c].pc \in LivePcs
                  THEN ConnTask("dropped", conn[c].client_id, conn[c].nrecv,
                                conn[c].bad, None, None, 0, conn[c].marked,
                                conn[c].exit, conn[c].pong)
                  ELSE conn[c]]
    /\ rep' = NoReport
    /\ UNCHANGED <<dbUp, now, db>>

\* ------------------------------------------------------- api/client.rs
\* The first statement of upload_basic_info, upload_report and ws_report:
\*   let token = extract_agent_token(&headers)?;
\*   let client = state.db.find_client_by_token(&token).await?
\*       .ok_or(AppError::Unauthorized)?;
\* kind is "Ok" with the client row, or the AppError returned.
AuthResult(kind, client) == [kind |-> kind, client |-> client]

authenticate_agent(req) ==
    IF extract_agent_token(req) = None THEN AuthResult("Unauthorized", None)
    ELSE IF ~dbUp THEN AuthResult("Database", None)
    ELSE IF find_client_by_token(extract_agent_token(req)[1]) = None
         THEN AuthResult("Unauthorized", None)
         ELSE AuthResult("Ok", find_client_by_token(extract_agent_token(req)[1]))

\* A faulty create_client that derives the token from the name instead of
\* a fresh uuid.
create_client_TokenFromName(name) ==
    [i \in DOMAIN clients \cup {nClients + 1} |->
        IF i = nClients + 1
        THEN [NewClient(i, name) EXCEPT
                 !.token = AgentToken(IF name = "New Server" THEN 1 ELSE 2)]
        ELSE clients[i]]

\* repository.rs create_client: INSERT INTO clients (name, token)
\* VALUES ($1, $2) RETURNING * with a fresh token; the id is the column
\* default gen_random_uuid().
create_client(name) ==
    [i \in DOMAIN clients \cup {nClients + 1} |->
        IF i = nClients + 1 THEN NewClient(i, name) ELSE clients[i]]

\* POST /api/agent/register: the response.
register_response(name) ==
    IF dbUp THEN Status(200) ELSE Failed("Database")

\* POST /api/agent/register
register(name, maxClients) ==
    /\ up
    /\ dbUp
    /\ nClients < maxClients
    /\ clients' = create_client(IF name = "" THEN "New Server" ELSE name)
    /\ nClients' = nClients + 1
    /\ UNCHANGED <<up, dbUp, now, users, sessions, nSessions, records,
                   nRecords, conn, rep>>

\* POST /api/agent/report, up to the first database write: the Json
\* extractor rejects a body that is no RecordInput (422) before the handler
\* runs; then the bearer is authenticated.  The response when the request
\* ends here, None when it goes on.
upload_report_rejection(req, body) ==
    IF ParseRecordInput(body) = None THEN Some(Status(422))
    ELSE IF authenticate_agent(req).kind # "Ok"
         THEN Some(Failed(authenticate_agent(req).kind))
         ELSE None

upload_report_begin(req, body) ==
    /\ up
    /\ rep.pc = "idle"
    /\ upload_report_rejection(req, body) = None
    /\ rep' = ReportTask("online", authenticate_agent(req).client[1].id,
                         ParseRecordInput(body))
    /\ UNCHANGED <<up, dbUp, now, db, conn>>

\* upload_report: state.db.update_client_online(client.id, true).await?
\* The response when the request ends here, None when it goes on.
upload_report_online_response ==
    IF dbUp THEN None ELSE Some(Failed("Database"))

\* A faulty report that writes the status with the flag the wrong way round.
upload_report_online_MarksOffline ==
    /\ up
    /\ rep.pc = "online"
    /\ IF upload_report_online_response = None
       THEN /\ clients' = update_client_online(rep.client_id, FALSE)
            /\ rep' = [rep EXCEPT !.pc = "insert"]
       ELSE /\ rep' = NoReport
            /\ UNCHANGED clients
    /\ UNCHANGED <<up, dbUp, now, users, sessions, nSessions, nClients,
                   records, nRecords, conn>>

upload_report_online ==
    /\ up
    /\ rep.pc = "online"
    /\ IF upload_report_online_response = None
       THEN /\ clients' = update_client_online(rep.client_id, TRUE)
            /\ rep' = [rep EXCEPT !.pc = "insert"]
       ELSE /\ rep' = NoReport
            /\ UNCHANGED clients
    /\ UNCHANGED <<up, dbUp, now, users, sessions, nSessions, nClients,
                   records, nRecords, conn>>

\* upload_report: state.db.insert_record(client.id, &req).await?; Ok(..).
\* The insert fails when the database is down or the client row is gone
\* (records.client_id REFERENCES clients(id)).
upload_report_insert_response ==
    IF dbUp /\ rep.client_id \in DOMAIN clients
    THEN Status(200) ELSE Failed("Database")

\* A faulty report that runs both statements in one transaction: a failed
\* insert takes the status write back.
upload_report_insert_RollsBack(maxRecords) ==
    /\ up
    /\ rep.pc = "insert"
    /\ IF upload_report_insert_response = Status(200)
       THEN /\ nRecords < maxRecords
            /\ records' = insert_record(rep.client_id, rep.body[1], 0, 0)
            /\ nRecords' = nRecords + 1
            /\ UNCHANGED clients
       ELSE /\ UNCHANGED <<records, nRecords>>
            /\ clients' = [i \in DOMAIN clients |->
                              IF i = rep.client_id
                              THEN [clients[i] EXCEPT !.online = FALSE,
                                                      !.last_seen_at = None]
                              ELSE clients[i]]
    /\ rep' = NoReport
    /\ UNCHANGED <<up, dbUp, now, users, sessions, nSessions, nClients, conn>>

upload_report_insert(maxRecords) ==
    /\ up
    /\ rep.pc = "insert"
    /\ IF upload_report_insert_response = Status(200)
       THEN /\ nRecords < maxRecords
            /\ records' = insert_record(rep.client_id, rep.body[1], 0, 0)
            /\ nRecords' = nRecords + 1
       ELSE UNCHANGED <<records, nRecords>>
    /\ rep' = NoReport
    /\ UNCHANGED <<up, dbUp, now, users, sessions, nSessions, clients,
                   nClients, conn>>

\* GET /api/agent/ws: the response -- 101 Switching Protocols from
\* ws.on_upgrade, or the error of the authentication.
ws_report_response(req) ==
    IF authenticate_agent(req).kind # "Ok"
    THEN Failed(authenticate_agent(req).kind)
    ELSE Status(101)

\* ws_report: the tasks after the request -- on_upgrade spawns
\* handle_agent_ws(state, client_id, client_name, socket) in slot c.
ws_report_tasks(req, c) ==
    IF ws_report_response(req) # Status(101) THEN conn
    ELSE [conn EXCEPT ![c] = ConnTask("online",
                                      authenticate_agent(req).client[1].id,
                                      0, 0, None, None, now, FALSE, "", None)]

ws_report(req, maxConns) ==
    /\ up
    /\ ws_report_response(req) = Status(101)
    /\ \E c \in FreeConn \cap 1..maxConns : conn' = ws_report_tasks(req, c)
    /\ UNCHANGED <<up, dbUp, now, db, rep>>

\* handle_agent_ws, "Mark as online": a failure is logged and ignored.
ws_online(c) ==
    /\ up
    /\ conn[c].pc = "online"
    /\ clients' = IF dbUp THEN update_client_online(conn[c].client_id, TRUE)
                  ELSE clients
    /\ conn' = [conn EXCEPT ![c].pc = "recv", ![c].t0 = 0,
                            ![c].marked = dbUp /\ conn[c].client_id \in DOMAIN clients]
    /\ UNCHANGED <<up, dbUp, now, users, sessions, nSessions, nClients,
                   records, nRecords, rep>>

\* A faulty receive loop: a text frame that is no sample breaks out of the
\* loop like a close frame.
ws_dispatch_BadFrameCloses(task, msg) ==
    CASE msg.kind = "Text" ->
            IF ParseRecordInput(msg.text) # None
            THEN [task EXCEPT !.pc = "insert", !.rec = ParseRecordInput(msg.text),
                              !.nrecv = @ + 1]
            ELSE [task EXCEPT !.pc = "offline", !.nrecv = @ + 1, !.bad = @ + 1,
                              !.exit = "Close"]
      [] msg.kind = "Ping" ->
            [task EXCEPT !.pc = "pong", !.data = Some(msg.data), !.nrecv = @ + 1]
      [] msg.kind \in {"Close", "Err"} ->
            [task EXCEPT !.pc = "offline", !.nrecv = @ + 1, !.exit = msg.kind]
      [] msg.kind = "None" ->
            [task EXCEPT !.pc = "offline", !.exit = "End"]
      [] OTHER ->
            [task EXCEPT !.nrecv = @ + 1]

\* A faulty receive loop: a transport error returns from the task instead
\* of breaking out of the loop.
ws_dispatch_ErrReturns(task, msg) ==
    CASE msg.kind = "Text" ->
            IF ParseRecordInput(msg.text) # None
            THEN [task EXCEPT !.pc = "insert", !.rec = ParseRecordInput(msg.text),
                              !.nrecv = @ + 1]
            ELSE [task EXCEPT !.nrecv = @ + 1, !.bad = @ + 1]
      [] msg.kind = "Ping" ->
            [task EXCEPT !.pc = "pong", !.data = Some(msg.data), !.nrecv = @ + 1]
      [] msg.kind = "Close" ->
            [task EXCEPT !.pc = "offline", !.nrecv = @ + 1, !.exit = msg.kind]
      [] msg.kind = "Err" ->
            [task EXCEPT !.pc = "done", !.nrecv = @ + 1, !.exit = msg.kind]
      [] msg.kind = "None" ->
            [task EXCEPT !.pc = "offline", !.exit = "End"]
      [] OTHER ->
            [task EXCEPT !.nrecv = @ + 1]

\* The state the match in the receive loop leaves the task in.
ws_dispatch(task, msg) ==
    CASE msg.kind = "Text" ->
            IF ParseRecordInput(msg.text) # None
            THEN [task EXCEPT !.pc = "insert", !.rec = ParseRecordInput(msg.text),
                              !.nrecv = @ + 1]
            ELSE [task EXCEPT !.nrecv = @ + 1, !.bad = @ + 1]
      [] msg.kind = "Ping" ->
            [task EXCEPT !.pc = "pong", !.data = Some(msg.data), !.nrecv = @ + 1]
      [] msg.kind \in {"Close", "Err"} ->
            [task EXCEPT !.pc = "offline", !.nrecv = @ + 1, !.exit = msg.kind]
      [] msg.kind = "None" ->
            [task EXCEPT !.pc = "offline", !.exit = "End"]
      [] OTHER ->
            [task EXCEPT !.nrecv = @ + 1]

\* A faulty loop that does not await the insert: the next message is read
\* while the insert of the last sample is still pending.
ws_recv_DoesNotAwaitInsert(c, msg, maxFrames) ==
    /\ up
    /\ conn[c].pc \in {"recv", "insert"}
    /\ msg.kind = "None" \/ conn[c].nrecv < maxFrames
    /\ conn' = [conn EXCEPT ![c] = ws_dispatch(conn[c], msg)]
    /\ UNCHANGED <<up, dbUp, now, db, rep>>

\* handle_agent_ws: receiver.next().await yields msg.  The end of the
\* stream can always come; another message only within the bound.
ws_recv(c, msg, maxFrames) ==
    /\ up
    /\ conn[c].pc = "recv"
    /\ msg.kind = "None" \/ conn[c].nrecv < maxFrames
    /\ conn' = [conn EXCEPT ![c] = ws_dispatch(conn[c], msg)]
    /\ UNCHANGED <<up, dbUp, now, db, rep>>

\* A faulty loop that treats a failed insert like a transport error and
\* breaks out.
ws_insert_FailureBreaks(c, maxRecords) ==
    /\ up
    /\ conn[c].pc = "insert"
    /\ IF dbUp /\ conn[c].client_id \in DOMAIN clients
       THEN /\ nRecords < maxRecords
            /\ records' = insert_record(conn[c].client_id, conn[c].rec[1],
                                        c, conn[c].nrecv)
            /\ nRecords' = nRecords + 1
            /\ conn' = [conn EXCEPT ![c].pc = "refresh", ![c].rec = None]
       ELSE /\ UNCHANGED <<records, nRecords>>
            /\ conn' = [conn EXCEPT ![c].pc = "offline", ![c].rec = None,
                                    ![c].exit = "Err"]
    /\ UNCHANGED <<up, dbUp, now, users, sessions, nSessions, clients,
                   nClients, rep>>

\* handle_agent_ws: insert_record(client_id, &record).await; a failure is
\* logged and the task goes on.
ws_insert(c, maxRecords) ==
    /\ up
    /\ conn[c].pc = "insert"
    /\ IF dbUp /\ conn[c].client_id \in DOMAIN clients
       THEN /\ nRecords < maxRecords
            /\ records' = insert_record(conn[c].client_id, conn[c].rec[1],
                                        c, conn[c].nrecv)
            /\ nRecords' = nRecords + 1
       ELSE UNCHANGED <<records, nRecords>>
    /\ conn' = [conn EXCEPT ![c].pc = "refresh", ![c].rec = None]
    /\ UNCHANGED <<up, dbUp, now, users, sessions, nSessions, clients,
                   nClients, rep>>

\* A faulty loop that goes back to receiver.next() without the status write
\* that follows a stored frame.
ws_refresh_SkipsWrite(c) ==
    /\ up
    /\ conn[c].pc = "refresh"
    /\ conn' = [conn EXCEPT ![c].pc = "recv"]
    /\ UNCHANGED <<up, dbUp, now, db, rep>>

\* handle_agent_ws, "Update last seen":
\*   let _ = state.db.update_client_online(client_id, true).await;
ws_refresh(c) ==
    /\ up
    /\ conn[c].pc = "refresh"
    /\ clients' = IF dbUp THEN update_client_online(conn[c].client_id, TRUE)
                  ELSE clients
    /\ conn' = [conn EXCEPT ![c].pc = "recv"]
    /\ UNCHANGED <<up, dbUp, now, users, sessions, nSessions, nClients,
                   records, nRecords, rep>>

\* A faulty keepalive: the pong is sent with an empty payload.
ws_pong_EmptyPayload(c, sent) ==
    /\ up
    /\ conn[c].pc = "pong"
    /\ conn' = [conn EXCEPT ![c].pc = IF sent THEN "recv" ELSE "offline",
                            ![c].exit = IF sent THEN "" ELSE "Pong",
                            ![c].pong = IF sent THEN Some(0) ELSE @,
                            ![c].data = None]
    /\ UNCHANGED <<up, dbUp, now, db, rep>>

\* handle_agent_ws: sender.send(Message::Pong(data)).await; break on Err.
ws_pong(c, sent) ==
    /\ up
    /\ conn[c].pc = "pong"
    /\ conn' = [conn EXCEPT ![c].pc = IF sent THEN "recv" ELSE "offline",
                            ![c].exit = IF sent THEN "" ELSE "Pong",
                            ![c].pong = IF sent THEN conn[c].data ELSE @,
                            ![c].data = None]
    /\ UNCHANGED <<up, dbUp, now, db, rep>>

\* A faulty task that counts connections: it writes the offline status
\* only when no other task of the same agent is running.
ws_offline_OnlyWhenLast(c) ==
    /\ up
    /\ conn[c].pc = "offline"
    /\ clients' = IF /\ dbUp
                     /\ \A d \in ConnIds \ {c} :
                            ~(conn[d].pc \in LivePcs
                                /\ conn[d].client_id = conn[c].client_id)
                  THEN update_client_online(conn[c].client_id, FALSE)
                  ELSE clients
    /\ conn' = [conn EXCEPT ![c].pc = "done"]
    /\ UNCHANGED <<up, dbUp, now, users, sessions, nSessions, nClients,
                   records, nRecords, rep>>

\* handle_agent_ws, "Mark as offline", after the loop: a failure is logged.
ws_offline(c) ==
    /\ up
    /\ conn[c].pc = "offline"
    /\ clients' = IF dbUp THEN update_client_online(conn[c].client_id, FALSE)
                  ELSE clients
    /\ conn' = [conn EXCEPT ![c].pc = "done"]
    /\ UNCHANGED <<up, dbUp, now, users, sessions, nSessions, nClients,
                   records, nRecords, rep>>

\* BasicInfoRequest: cpu_name stands for the #[serde(default)] fields.
BasicInfo(cpu_name, ipv4, ipv6) ==
    [cpu_name |-> cpu_name, ipv4 |-> ipv4, ipv6 |-> ipv6]

\* UPDATE clients SET cpu_name = $2, ... WHERE id = $1
update_client_basic_info(rows, id, cpu_name) ==
    [i \in DOMAIN rows |->
        IF i = id THEN [rows[i] EXCEPT !.cpu_name = cpu_name] ELSE rows[i]]

\* A faulty statement that keeps the previous address in the other column:
\* UPDATE clients SET ipv6 = ipv4, ipv4 = $2 WHERE id = $1
update_client_ips_KeepsPrevious(rows, id, ipv4, ipv6) ==
    [i \in DOMAIN rows |->
        IF i = id THEN [rows[i] EXCEPT !.ipv4 = ipv4, !.ipv6 = rows[i].ipv4]
        ELSE rows[i]]

\* UPDATE clients SET ipv4 = $2, ipv6 = $3 WHERE id = $1
update_client_ips(rows, id, ipv4, ipv6) ==
    [i \in DOMAIN rows |->
        IF i = id THEN [rows[i] EXCEPT !.ipv4 = ipv4, !.ipv6 = ipv6] ELSE rows[i]]

\* POST /api/agent/info: the response.
upload_basic_info_response(req, info) ==
    IF authenticate_agent(req).kind # "Ok"
    THEN Failed(authenticate_agent(req).kind)
    ELSE Status(200)

\* upload_basic_info: the table clients after the request.
upload_basic_info_clients(req, info) ==
    IF upload_basic_info_response(req, info) # Status(200) THEN clients
    ELSE IF info.ipv4 # None \/ info.ipv6 # None
    THEN update_client_ips(
             update_client_basic_info(
                 clients, authenticate_agent(req).client[1].id, info.cpu_name),
             authenticate_agent(req).client[1].id, info.ipv4, info.ipv6)
    ELSE update_client_basic_info(
             clients, authenticate_agent(req).client[1].id, info.cpu_name)

upload_basic_info(req, info) ==
    /\ up
    /\ upload_basic_info_response(req, info) = Status(200)
    /\ clients' = upload_basic_info_clients(req, info)
    /\ UNCHANGED <<up, dbUp, now, users, sessions, nSessions, nClients,
                   records, nRecords, conn, rep>>

\* --------------------------------------------------- middleware/auth.rs
\* auth_middleware: the user it inserts into the request extensions, if
\* any; a failing lookup attaches nothing and the request goes on.
auth_middleware(req) ==
    IF extract_token(req) = None \/ ~dbUp THEN None
    ELSE IF find_session_by_token(extract_token(req)[1]) = None THEN None
    ELSE find_user_by_id(find_session_by_token(extract_token(req)[1])[1].user_id)

\* auth_middleware: request.extensions_mut().insert(user) -- the request
\* extensions the handler sees, each value under its Rust type.
auth_middleware_extensions(req) ==
    IF auth_middleware(req) = None THEN {}
    ELSE {[type |-> "User", value |-> auth_middleware(req)[1]]}

\* A faulty optional layer that answers 401 when it found no user.
auth_middleware_response_Rejects(req, inner) ==
    IF auth_middleware(req) = None THEN Status(401) ELSE inner

\* auth_middleware: its result, given the response inner of the service it
\* wraps -- Ok(next.run(request).await) on every path.
auth_middleware_response(req, inner) == inner

\* require_auth_middleware: status 200 and the user when next.run is
\* reached, else the status code returned instead.
GateResult(status, user) == [status |-> status, user |-> user]

\* A faulty gate that behaves like the optional layer: it attaches what it
\* finds and lets every request through.
require_auth_middleware_LetsThrough(req) ==
    GateResult(200, auth_middleware(req))

require_auth_middleware(req) ==
    IF extract_token(req) = None THEN GateResult(401, None)
    ELSE IF ~dbUp THEN GateResult(500, None)
    ELSE IF find_session_by_token(extract_token(req)[1]) = None
         THEN GateResult(401, None)
    ELSE IF find_user_by_id(find_session_by_token(extract_token(req)[1])[1].user_id) = None
         THEN GateResult(401, None)
    ELSE GateResult(200,
             find_user_by_id(find_session_by_token(extract_token(req)[1])[1].user_id))

\* The user the gate attaches to req, when it lets req through.
Caller(req) == require_auth_middleware(req).user[1]

\* --------------------------------------------------------- api/auth.rs
\* INSERT INTO sessions (user_id, token, .., expires_at) with
\* expires_at = Utc::now() + Duration::seconds(expires_secs)
\* A faulty create_session that keeps one session per user: it deletes the
\* user's other sessions first.
create_session_ReplacesOld(user_id, token, expires_secs) ==
    {s \in sessions : s.user_id # user_id}
        \cup {[id |-> nSessions + 1, user_id |-> user_id, token |-> token,
                expires_at |-> now + expires_secs]}

create_session(user_id, token, expires_secs) ==
    sessions \cup {[id |-> nSessions + 1, user_id |-> user_id, token |-> token,
                    expires_at |-> now + expires_secs]}

\* A faulty statement without its WHERE clause: DELETE FROM sessions
delete_session_AllRows(rows, token) == {}

\* DELETE FROM sessions WHERE token = $1
delete_session(rows, token) == {s \in rows : s.token # token}

\* A faulty login that tells an unknown user from a wrong password.
login_error_TellsUnknownUser(username, password) ==
    IF ~dbUp THEN Some([kind |-> "Database", text |-> "pool"])
    ELSE IF find_user_by_username(username) = None
         THEN Some([kind |-> "NotFound", text |-> "User not found"])
    ELSE IF ~verify_password(password,
                             find_user_by_username(username)[1].password_hash)
         THEN Some([kind |-> "BadRequest", text |-> "Invalid username or password"])
         ELSE None

\* login: the AppError it returns (its kind and the text it carries), None
\* when it returns Ok.
login_error(username, password) ==
    IF ~dbUp THEN Some([kind |-> "Database", text |-> "pool"])
    ELSE IF find_user_by_username(username) = None
         THEN Some([kind |-> "BadRequest", text |-> "Invalid username or password"])
    ELSE IF ~verify_password(password,
                             find_user_by_username(username)[1].password_hash)
         THEN Some([kind |-> "BadRequest", text |-> "Invalid username or password"])
         ELSE None

\* POST /api/login: what the caller gets -- status, the "error" and
\* "message" fields of an error body (message = self.to_string(): the
\* kind's prefix and the text), the token of the body and the Set-Cookie
\* header of a success.
login_reply(username, password) ==
    IF login_error(username, password) # None
    THEN [status |-> into_response(login_error(username, password)[1].kind).status,
          error |-> into_response(login_error(username, password)[1].kind).error,
          message |-> <<login_error(username, password)[1].kind,
                        login_error(username, password)[1].text>>,
          token |-> None, set_cookie |-> None]
    ELSE [status |-> 200, error |-> "", message |-> <<>>,
          token |-> Some(SessionToken(nSessions + 1)),
          set_cookie |-> Some(CookiePair("token", SessionToken(nSessions + 1)))]

\* login: the table sessions after the request.
login_sessions(username, password) ==
    IF login_error(username, password) # None THEN sessions
    ELSE create_session(find_user_by_username(username)[1].id,
                        SessionToken(nSessions + 1), JwtExpiresSecs)

\* POST /api/login: the response.
login_response(username, password) ==
    IF ~dbUp THEN Failed("Database")
    ELSE IF find_user_by_username(username) = None THEN Failed("BadRequest")
    ELSE IF ~verify_password(password,
                             find_user_by_username(username)[1].password_hash)
         THEN Failed("BadRequest")
         ELSE Status(200)

\* POST /api/login
login(username, password, maxSessions) ==
    /\ up
    /\ login_response(username, password) = Status(200)
    /\ nSessions < maxSessions
    /\ sessions' = login_sessions(username, password)
    /\ nSessions' = nSessions + 1
    /\ UNCHANGED <<up, dbUp, now, users, clients, nClients, records,
                   nRecords, conn, rep>>

\* logout: delete_session for every "token=.." part of the Cookie header.
RECURSIVE DeleteTokenCookies(_, _)
DeleteTokenCookies(rows, pairs) ==
    IF pairs = <<>> THEN rows
    ELSE DeleteTokenCookies(
             IF Head(pairs).eq /\ Head(pairs).name = "token"
             THEN delete_session(rows, Head(pairs).value)
             ELSE rows,
             Tail(pairs))

\* logout: the table sessions after the request; an error of
\* delete_session is ignored.
logout_sessions(req) ==
    IF dbUp /\ req.cookie # None /\ req.cookie[1].ascii
    THEN DeleteTokenCookies(sessions, req.cookie[1].text)
    ELSE sessions

\* GET /api/logout: the response -- Ok on every path.
logout_response(req) == Status(200)

\* GET /api/logout
logout(req) ==
    /\ up
    /\ sessions' = logout_sessions(req)
    /\ UNCHANGED <<up, dbUp, now, users, nSessions, clients, nClients,
                   records, nRecords, conn, rep>>

\* axum's Extension<T> extractor: the extension stored under the type T,
\* or None when there is none (the rejection MissingExtension).
Extension(type, extensions) ==
    FetchOptional({e.value : e \in {x \in extensions : x.type = type}})

\* UserInfo::from(&user)
UserInfo(user) == [id |-> user.id, username |-> user.username]

\* GET /api/me, the handler
\*   me(Extension(user): Extension<Option<User>>)
\* given the request extensions: the extractor asks for an extension of
\* type Option<User>; without one axum answers 500 in place of the
\* handler.  json is the body: Some(user info) or None (null).
me(extensions) ==
    IF Extension("Option<User>", extensions) = None
    THEN [status |-> 500, json |-> None]
    ELSE IF Extension("Option<User>", extensions)[1] # None
         THEN [status |-> 200,
               json |-> Some(UserInfo(Extension("Option<User>", extensions)[1][1]))]
         ELSE [status |-> 200, json |-> None]

\* GET /api/me behind the optional layer: the response.
me_response(req) ==
    auth_middleware_response(req, me(auth_middleware_extensions(req)))

\* -------------------------------------------------------- api/admin.rs
\* The response of an admin route whose handler answers 200: the status of
\* require_auth_middleware unless it lets the request through.
admin_response(req) == Status(require_auth_middleware(req).status)

\* POST /api/admin/clients, behind require_auth_middleware.
add_client(req, name, maxClients) ==
    /\ up
    /\ admin_response(req) = Status(200)
    /\ nClients < maxClients
    /\ clients' = create_client(name)
    /\ nClients' = nClients + 1
    /\ UNCHANGED <<up, dbUp, now, users, sessions, nSessions, records,
                   nRecords, conn, rep>>

\* EditClientRequest: the Option fields name, remark and hidden.
EditClientRequest(name, remark, hidden) ==
    [name |-> name, remark |-> remark, hidden |-> hidden]

\* A faulty edit that also writes the columns the request does not give,
\* online among them, with their defaults.
update_client_ResetsStatus(id, edit) ==
    [i \in DOMAIN clients |->
        IF i = id
        THEN [clients[i] EXCEPT
                 !.name = IF edit.name # None THEN edit.name[1] ELSE @,
                 !.remark = IF edit.remark # None THEN edit.remark[1] ELSE @,
                 !.hidden = IF edit.hidden # None THEN edit.hidden[1] ELSE @,
                 !.online = FALSE]
        ELSE clients[i]]

\* update_client: UPDATE clients SET updated_at = NOW() [, name = ..]
\* [, remark = ..] [, hidden = ..] WHERE id = $1
update_client(id, edit) ==
    [i \in DOMAIN clients |->
        IF i = id
        THEN [clients[i] EXCEPT
                 !.name = IF edit.name # None THEN edit.name[1] ELSE @,
                 !.remark = IF edit.remark # None THEN edit.remark[1] ELSE @,
                 !.hidden = IF edit.hidden # None THEN edit.hidden[1] ELSE @]
        ELSE clients[i]]

\* POST /api/admin/clients/:id, behind require_auth_middleware.
edit_client(req, id, edit) ==
    /\ up
    /\ admin_response(req) = Status(200)
    /\ clients' = update_client(id, edit)
    /\ UNCHANGED <<up, dbUp, now, users, sessions, nSessions, nClients,
                   records, nRecords, conn, rep>>

\* DELETE FROM clients WHERE id = $1: the table clients after it.
delete_client(id) == [i \in DOMAIN clients \ {id} |-> clients[i]]

\* A faulty schema without ON DELETE CASCADE on records.client_id.
delete_cascade_KeepsRows(rows, id) == rows

\* records.client_id REFERENCES clients(id) ON DELETE CASCADE: the table
\* records after DELETE FROM clients WHERE id = $1.
RECURSIVE delete_cascade(_, _)
delete_cascade(rows, id) ==
    IF rows = <<>> THEN <<>>
    ELSE IF Head(rows).client_id = id THEN delete_cascade(Tail(rows), id)
         ELSE <<Head(rows)>> \o delete_cascade(Tail(rows), id)

\* DELETE /api/admin/clients/:id, behind require_auth_middleware.
admin_delete_client(req, id) ==
    /\ up
    /\ admin_response(req) = Status(200)
    /\ clients' = delete_client(id)
    /\ records' = delete_cascade(records, id)
    /\ UNCHANGED <<up, dbUp, now, users, sessions, nSessions, nClients,
                   nRecords, conn, rep>>

\* models.rs Client, as serialized: token is #[serde(skip_serializing)].
ClientJson(c) ==
    [id |-> c.id, name |-> c.name, cpu_name |-> c.cpu_name, ipv4 |-> c.ipv4,
     ipv6 |-> c.ipv6, remark |-> c.remark, hidden |-> c.hidden,
     online |-> c.online, last_seen_at |-> c.last_seen_at]

\* GET /api/admin/clients/:id: find_client_by_id(id).await?
\*     .ok_or(AppError::NotFound("Client not found"))
get_client(req, id) ==
    IF admin_response(req) # Status(200) THEN admin_response(req)
    ELSE IF find_client_by_id(id) = None THEN Failed("NotFound")
    ELSE [status |-> 200, error |-> "", body |-> ClientJson(find_client_by_id(id)[1])]

\* GET /api/admin/clients/:id/token
get_client_token(req, id) ==
    IF admin_response(req) # Status(200) THEN admin_response(req)
    ELSE IF find_client_by_id(id) = None THEN Failed("NotFound")
    ELSE [status |-> 200, error |-> "",
          body |-> [uuid |-> find_client_by_id(id)[1].id,
                    token |-> find_client_by_id(id)[1].token]]

\* POST /api/admin/clients/:id: the response -- update_client(..).await?
\* is Ok whatever number of rows the UPDATE matched.
edit_client_response(req, id, edit) ==
    IF admin_response(req) # Status(200) THEN admin_response(req)
    ELSE Status(200)

\* DELETE /api/admin/clients/:id: the response -- delete_client(id).await?
\* is Ok whatever number of rows the DELETE matched.
delete_client_response(req, id) ==
    IF admin_response(req) # Status(200) THEN admin_response(req)
    ELSE Status(200)

\* UPDATE users SET password_hash = $1, updated_at = NOW() WHERE id = $2
update_user_password(rows, id, password_hash) ==
    {IF u.id = id THEN [u EXCEPT !.password_hash = password_hash] ELSE u :
        u \in rows}

\* ChangePasswordRequest: old_password and new_password.
ChangePasswordRequest(old_password, new_password) ==
    [old_password |-> old_password, new_password |-> new_password]

\* A faulty handler that does not verify the old password.
change_password_response_SkipsVerify(req, body) ==
    IF admin_response(req) # Status(200) THEN admin_response(req)
    ELSE Status(200)

\* POST /api/admin/user/password: the response.  Extension(user) is the
\* row the gate attached; the old password is verified against its hash.
change_password_response(req, body) ==
    IF admin_response(req) # Status(200) THEN admin_response(req)
    ELSE IF ~verify_password(body.old_password,
                             require_auth_middleware(req).user[1].password_hash)
         THEN Failed("BadRequest")
         ELSE Status(200)

\* change_password: the table users after the request.
change_password_users(req, body) ==
    IF change_password_response(req, body) # Status(200) THEN users
    ELSE update_user_password(users, require_auth_middleware(req).user[1].id,
                              hash_password(body.new_password))

\* DELETE FROM sessions WHERE user_id = $1
delete_user_sessions(rows, user_id) == {s \in rows : s.user_id # user_id}

\* A faulty handler that signs the user out everywhere: it calls
\* delete_user_sessions after the update.
change_password_SignsOut(req, body) ==
    /\ up
    /\ change_password_response(req, body) = Status(200)
    /\ users' = change_password_users(req, body)
    /\ sessions' = delete_user_sessions(sessions, Caller(req).id)
    /\ UNCHANGED <<up, dbUp, now, nSessions, clients, nClients,
                   records, nRecords, conn, rep>>

\* POST /api/admin/user/password, behind require_auth_middleware.
change_password(req, body) ==
    /\ up
    /\ change_password_response(req, body) = Status(200)
    /\ users' = change_password_users(req, body)
    /\ UNCHANGED <<up, dbUp, now, sessions, nSessions, clients, nClients,
                   records, nRecords, conn, rep>>


\* A faulty query that lists the sessions of every user:
\* SELECT * FROM sessions WHERE expires_at > NOW()
get_user_sessions_OfAnyUser(user_id) ==
    {s \in sessions : s.expires_at > now}

\* SELECT * FROM sessions WHERE user_id = $1 AND expires_at > NOW()
get_user_sessions(user_id) ==
    {s \in sessions : s.user_id = user_id /\ s.expires_at > now}

\* GET /api/admin/sessions: the response and the sessions of its body.
list_sessions(req) ==
    IF admin_response(req) # Status(200)
    THEN [status |-> admin_response(req).status, body |-> {}]
    ELSE [status |-> 200,
          body |-> get_user_sessions(require_auth_middleware(req).user[1].id)]

\* DELETE /api/admin/sessions/:id: the response.  The id is looked up among
\* get_user_sessions(user.id) only.
admin_delete_session_response(req, id) ==
    IF admin_response(req) # Status(200) THEN admin_response(req)
    ELSE IF \A s \in get_user_sessions(require_auth_middleware(req).user[1].id) :
                s.id # id
         THEN Failed("NotFound")
         ELSE Status(200)

\* admin delete_session: the table sessions after the request --
\* delete_session(&session.token) of the session found.
admin_delete_session_sessions(req, id) ==
    IF admin_delete_session_response(req, id) # Status(200) THEN sessions
    ELSE delete_session(sessions,
             (CHOOSE s \in get_user_sessions(require_auth_middleware(req).user[1].id) :
                  s.id = id).token)

\* DELETE /api/admin/sessions/:id, behind require_auth_middleware.
admin_delete_session(req, id) ==
    /\ up
    /\ admin_delete_session_response(req, id) = Status(200)
    /\ sessions' = admin_delete_session_sessions(req, id)
    /\ UNCHANGED <<up, dbUp, now, users, nSessions, clients, nClients,
                   records, nRecords, conn, rep>>

\* ------------------------------------------------------- api/public.rs
\* A read-only handler is an operator over the tables; where SQL leaves
\* the order of rows open (equal sort keys) it is the set of all the
\* results the query may give.
\* The names the requests of the model give an agent, in ORDER BY name
\* order, and the place of a name in it.
NameOrder == <<"Added", "New Server">>

NameRank(name) == CHOOSE k \in DOMAIN NameOrder : NameOrder[k] = name

\* ORDER BY weight DESC, name: every enumeration of the set S of clients
\* rows in which the names do not descend.
OrderByName(S) ==
    {s \in [1..Cardinality(S) -> S] :
        /\ \A i, j \in DOMAIN s : i # j => s[i] # s[j]
        /\ \A i, j \in DOMAIN s :
              i < j => NameRank(s[i].name) <= NameRank(s[j].name)}

\* ORDER BY time DESC: every enumeration of the set S of records rows in
\* which the times do not ascend.
OrderByTimeDesc(S) ==
    {s \in [1..Cardinality(S) -> S] :
        /\ \A i, j \in DOMAIN s : i # j => s[i] # s[j]
        /\ \A i, j \in DOMAIN s : i < j => s[i].time >= s[j].time}

\* A faulty query without the filter:
\* SELECT * FROM clients ORDER BY weight DESC, name
get_visible_clients_IncludesHidden ==
    OrderByName({clients[i] : i \in DOMAIN clients})

\* SELECT * FROM clients WHERE hidden = FALSE ORDER BY weight DESC, name
\* (no request of the model sets weight: every row has the default).
get_visible_clients ==
    OrderByName({clients[i] : i \in {j \in DOMAIN clients : clients[j].hidden = FALSE}})

\* models.rs Record, as serialized: the columns of a records row.
Record(r) ==
    [id |-> r.id, client_id |-> r.client_id, time |-> r.time,
     cpu |-> r.cpu, gpu |-> r.gpu]

RecordsOf(client_id) ==
    {Record(records[i]) : i \in {j \in DOMAIN records : records[j].client_id = client_id}}

Min(a, b) == IF a < b THEN a ELSE b

\* SELECT * FROM records WHERE client_id = $1 ORDER BY time DESC LIMIT $2
get_recent_records(client_id, limit) ==
    {SubSeq(s, 1, Min(limit, Len(s))) :
        s \in OrderByTimeDesc(RecordsOf(client_id))}

\* SELECT * FROM records WHERE client_id = $1 ORDER BY time DESC LIMIT 1,
\* fetch_optional.
get_latest_record(client_id) ==
    IF RecordsOf(client_id) = {} THEN {None}
    ELSE {Some(s[1]) :
            s \in OrderByTimeDesc(RecordsOf(client_id))}

\* A handler's Ok(Json(body)).
OkJson(body) == [status |-> 200, error |-> "", body |-> body]

\* impl From<Client> for ClientPublic: the columns it copies.
ClientPublic(c) ==
    [id |-> c.id, name |-> c.name, cpu_name |-> c.cpu_name,
     online |-> c.online, last_seen_at |-> c.last_seen_at]

\* get_clients: ClientStatus, the fields copied from the latest record.
ClientStatus(r) == [cpu |-> r.cpu]

\* A faulty loop that looks the latest record up whether or not the client
\* is online.
ClientWithStatus_AlwaysStatus(client) ==
    {[client |-> ClientPublic(client), status |-> status] :
        status \in {IF r = None THEN None ELSE Some(ClientStatus(r[1])) :
                        r \in get_latest_record(client.id)}}

\* get_clients: what the loop pushes for client -- the status is looked up
\* only if client.online, and is None without a record.
ClientWithStatus(client) ==
    {[client |-> ClientPublic(client), status |-> status] :
        status \in IF client.online
                   THEN {IF r = None THEN None ELSE Some(ClientStatus(r[1])) :
                            r \in get_latest_record(client.id)}
                   ELSE {None}}

\* GET /api/clients: the responses the handler may give.
get_clients ==
    IF ~dbUp THEN {Failed("Database")}
    ELSE {OkJson(body) :
            body \in UNION {
                {b \in [DOMAIN s -> UNION {ClientWithStatus(s[k]) : k \in DOMAIN s}] :
                    \A k \in DOMAIN s : b[k] \in ClientWithStatus(s[k])} :
                s \in get_visible_clients}}

\* get_nodes: NodeInfo.
NodeInfo(c) == [id |-> c.id, name |-> c.name, online |-> c.online]

\* GET /api/nodes: the responses the handler may give.
get_nodes ==
    IF ~dbUp THEN {Failed("Database")}
    ELSE {OkJson([k \in DOMAIN s |-> NodeInfo(s[k])]) : s \in get_visible_clients}

\* The values of ?limit= the model asks with; 60 is default_limit().
Limits == {1, 60}

\* GET /api/recent/:uuid: the responses the handler may give.
get_recent_records_response(uuid, limit) ==
    IF ~dbUp THEN {Failed("Database")}
    ELSE {OkJson(body) : body \in get_recent_records(uuid, limit)}

\* ------------------------------------------------------ the state machine
\* The requests the handlers are run with.  A handler reads its request only
\* through authenticate_agent or require_auth_middleware (logout: through
\* the Cookie header), and a rejected request changes nothing, so these
\* stand for all of Requests.
AgentCalls ==
    {Request(Some(HeaderValue(TRUE, <<"Bearer ">> \o AgentToken(n))), None) :
        n \in 1..StreamClients}

HumanCalls ==
    {Request(Some(HeaderValue(TRUE, <<"Bearer ">> \o SessionToken(1))), None),
     Request(None, Some(HeaderValue(TRUE, <<CookiePair("token", SessionToken(1))>>)))}

\* The same with the second session's token in the header.
HumanCallsAuth ==
    HumanCalls \cup
        {Request(Some(HeaderValue(TRUE, <<"Bearer ">> \o SessionToken(2))), None)}

\* What the sockets deliver: every kind of message, the text payloads being
\* those of texts.
Receivable(texts) ==
    {m \in Received : m.kind = "Text" => m.text \in texts}

\* One sample, and every way of not being one.
OneSample == {t \in Texts : ParseRecordInput(t) = None \/ "gpu" \in t.nums}

ClientIds == 1..StreamClients

\* Spec: every operation of the server, from an empty database.
Next ==
    \/ Tick(MaxTime)
    \/ DbFail
    \/ DbRecover
    \/ Main
    \/ Shutdown
    \/ register("", MaxClients)
    \/ \E req \in AgentCalls :
          upload_basic_info(req, BasicInfo("EPYC", Some("10.0.0.1"), None))
    \/ \E req \in AgentCalls, body \in Texts : upload_report_begin(req, body)
    \/ upload_report_online
    \/ upload_report_insert(MaxRecords)
    \/ \E req \in AgentCalls : ws_report(req, MaxConns)
    \/ \E c \in ConnIds : ws_online(c)
    \/ \E c \in ConnIds, msg \in Receivable(Texts) : ws_recv(c, msg, MaxFrames)
    \/ \E c \in ConnIds : ws_insert(c, MaxRecords)
    \/ \E c \in ConnIds : ws_refresh(c)
    \/ \E c \in ConnIds, sent \in BOOLEAN : ws_pong(c, sent)
    \/ \E c \in ConnIds : ws_offline(c)
    \/ login(AdminUsername, AdminPassword, MaxSessions)
    \/ \E req \in HumanCalls : logout(req)
    \/ \E req \in HumanCalls : add_client(req, "New Server", MaxClients)
    \/ \E req \in HumanCalls, id \in ClientIds :
          edit_client(req, id, EditClientRequest(None, None, Some(TRUE)))
    \/ \E req \in HumanCalls, id \in ClientIds : admin_delete_client(req, id)

Spec == Init /\ [][Next]_vars

\* SpecStream: the agents' registration and their streams, on a running
\* server whose database answers.
InitStream ==
    /\ up = TRUE
    /\ dbUp = TRUE
    /\ now = 0
    /\ users = init_admin_user({})
    /\ sessions = {}
    /\ nSessions = 0
    /\ clients = <<>>
    /\ nClients = 0
    /\ records = <<>>
    /\ nRecords = 0
    /\ conn = [c \in ConnIds |-> NoConn]
    /\ rep = NoReport

NextStream ==
    \/ Tick(StreamTime)
    \/ register("", StreamClients)
    \/ \E req \in AgentCalls : ws_report(req, StreamConns)
    \/ \E c \in ConnIds : ws_online(c)
    \/ \E c \in ConnIds, msg \in Receivable(OneSample) :
          ws_recv(c, msg, StreamFrames)
    \/ \E c \in ConnIds : ws_insert(c, StreamRecords)
    \/ \E c \in ConnIds : ws_refresh(c)
    \/ \E c \in ConnIds, sent \in BOOLEAN : ws_pong(c, sent)
    \/ \E c \in ConnIds : ws_offline(c)

SpecStream == InitStream /\ [][NextStream]_vars

\* SpecAuth: the requests that create, use and delete agent tokens and
\* sessions, on a running server whose database may fail.
NextAuth ==
    \/ Tick(AuthTime)
    \/ DbFail
    \/ DbRecover
    \/ register("", AuthClients)
    \/ \E req \in AgentCalls :
          upload_basic_info(req, BasicInfo("EPYC", Some("10.0.0.1"), None))
    \/ login(AdminUsername, AdminPassword, AuthSessions)
    \/ \E req \in HumanCallsAuth : logout(req)
    \/ \E req \in HumanCallsAuth : add_client(req, "Added", AuthClients)
    \/ \E req \in HumanCallsAuth, id \in ClientIds :
          edit_client(req, id, EditClientRequest(None, None, Some(TRUE)))
    \/ \E req \in HumanCallsAuth, id \in ClientIds : admin_delete_client(req, id)

SpecAuth == InitStream /\ [][NextAuth]_vars

\* SpecRace: HTTP reports and stream frames of the same agent, their
\* storage writes interleaved, on a running server whose database answers
\* and with streams that stay open (only text frames arrive).
TextFrames == {m \in Receivable(OneSample) : m.kind = "Text"}

NextRace ==
    \/ Tick(RaceTime)
    \/ register("", RaceClients)
    \/ \E req \in AgentCalls, body \in OneSample : upload_report_begin(req, body)
    \/ upload_report_online
    \/ upload_report_insert(RaceRecords)
    \/ \E req \in AgentCalls : ws_report(req, RaceConns)
    \/ \E c \in ConnIds : ws_online(c)
    \/ \E c \in ConnIds, msg \in TextFrames : ws_recv(c, msg, RaceFrames)
    \/ \E c \in ConnIds : ws_insert(c, RaceRecords)
    \/ \E c \in ConnIds : ws_refresh(c)

SpecRace == InitStream /\ [][NextRace]_vars

\* SpecPublic: the public read routes, with the requests that change what
\* they read: registrations, reports, and the admin's edits of the hidden
\* flag and of the internal remark.
PublicEdits ==
    {EditClientRequest(None, None, Some(TRUE)),
     EditClientRequest(None, None, Some(FALSE)),
     EditClientRequest(None, Some("rack 12"), None)}

NextPublic ==
    \/ Tick(PubTime)
    \/ DbFail
    \/ DbRecover
    \/ register("", PubClients)
    \/ login(AdminUsername, AdminPassword, PubSessions)
    \/ \E req \in HumanCalls : add_client(req, "Added", PubClients)
    \/ \E req \in HumanCalls, id \in ClientIds, edit \in PublicEdits :
          edit_client(req, id, edit)
    \/ \E req \in AgentCalls, body \in OneSample : upload_report_begin(req, body)
    \/ upload_report_online
    \/ upload_report_insert(PubRecords)

SpecPublic == InitStream /\ [][NextPublic]_vars

\* SpecCross: two agents, each with its reports, info uploads and streams,
\* on a running server whose database answers.  A stream receives a sample
\* or a close frame.
CrossFramesReceived ==
    {m \in Receivable(OneSample) :
        \/ m.kind = "Close"
        \/ m.kind = "Text" /\ ParseRecordInput(m.text) # None}

CrossSamples == {t \in OneSample : ParseRecordInput(t) # None}

NextCross ==
    \/ Tick(CrossTime)
    \/ register("", CrossClients)
    \/ \E req \in AgentCalls :
          upload_basic_info(req, BasicInfo("EPYC", Some("10.0.0.1"), None))
    \/ \E req \in AgentCalls, body \in CrossSamples : upload_report_begin(req, body)
    \/ upload_report_online
    \/ upload_report_insert(CrossRecords)
    \/ \E req \in AgentCalls : ws_report(req, CrossConns)
    \/ \E c \in ConnIds : ws_online(c)
    \/ \E c \in ConnIds, msg \in CrossFramesReceived : ws_recv(c, msg, CrossFrames)
    \/ \E c \in ConnIds : ws_insert(c, CrossRecords)
    \/ \E c \in ConnIds : ws_refresh(c)
    \/ \E c \in ConnIds : ws_offline(c)

SpecCross == InitStream /\ [][NextCross]_vars

\* SpecInfo: the info uploads of two agents, with and without addresses,
\* next to a report, on a running server whose database may fail.
Infos ==
    {BasicInfo("EPYC", Some("10.0.0.1"), None),
     BasicInfo("EPYC", None, Some("::1")),
     BasicInfo("Xeon", None, None)}

NextInfo ==
    \/ Tick(InfoTime)
    \/ DbFail
    \/ DbRecover
    \/ register("", InfoClients)
    \/ \E req \in AgentCalls, info \in Infos : upload_basic_info(req, info)
    \/ \E req \in AgentCalls, body \in CrossSamples : upload_report_begin(req, body)
    \/ upload_report_online
    \/ upload_report_insert(InfoRecords)

SpecInfo == InitStream /\ [][NextInfo]_vars

\* SpecUser: the starts of the server, the logins of the operators, their
\* password changes and the sessions they delete.  The table users is
\* external storage that the server only writes in init_admin_user and
\* change_password: it is empty when the server first starts, or it holds
\* the accounts it was given beforehand.
OperatorUsername == "operator"
OperatorPassword == "changed"

Usernames == {AdminUsername, OperatorUsername}

Passwords == {AdminPassword, OperatorPassword}

UserTables ==
    {{},
     create_user(create_user({}, AdminUsername, hash_password(AdminPassword)),
                 OperatorUsername, hash_password(OperatorPassword))}

UserBearers == {SessionToken(n) : n \in 1..UserSessions} \cup {JunkToken}

\* The requests of an operator: a session token or junk as bearer, as
\* cookie or both, a header without the "Bearer " prefix and one that is
\* not visible ASCII.
UserCalls ==
    {Request(a, c) :
        a \in {None} \cup {Some(HeaderValue(TRUE, <<"Bearer ">> \o b)) : b \in UserBearers}
                     \cup {Some(HeaderValue(TRUE, SessionToken(1))),
                           Some(HeaderValue(FALSE, <<"Bearer ">> \o JunkToken))},
        c \in {None} \cup {Some(HeaderValue(TRUE, <<CookiePair("token", b)>>)) :
                               b \in UserBearers}}

InitUser ==
    /\ up = FALSE
    /\ dbUp = TRUE
    /\ now = 0
    /\ users \in UserTables
    /\ sessions = {}
    /\ nSessions = 0
    /\ clients = <<>>
    /\ nClients = 0
    /\ records = <<>>
    /\ nRecords = 0
    /\ conn = [c \in ConnIds |-> NoConn]
    /\ rep = NoReport

NextUser ==
    \/ Tick(UserTime)
    \/ DbFail
    \/ DbRecover
    \/ Main
    \/ Shutdown
    \/ \E username \in Usernames, password \in Passwords :
          login(username, password, UserSessions)
    \/ \E req \in UserCalls : logout(req)
    \/ \E req \in UserCalls, old \in Passwords, new \in Passwords :
          change_password(req, ChangePasswordRequest(old, new))
    \/ \E req \in UserCalls, id \in 1..UserSessions :
          admin_delete_session(req, id)

SpecUser == InitUser /\ [][NextUser]_vars

\* SpecFail: one agent and its stream, on a running server whose database
\* may fail at any moment.  The stream receives samples or a close frame.
NextFail ==
    \/ Tick(FailTime)
    \/ DbFail
    \/ DbRecover
    \/ register("", FailClients)
    \/ \E req \in AgentCalls : ws_report(req, FailConns)
    \/ \E c \in ConnIds : ws_online(c)
    \/ \E c \in ConnIds, msg \in CrossFramesReceived :
          ws_recv(c, msg, FailFrames)
    \/ \E c \in ConnIds : ws_insert(c, FailRecords)
    \/ \E c \in ConnIds : ws_refresh(c)
    \/ \E c \in ConnIds : ws_offline(c)

SpecFail == InitStream /\ [][NextFail]_vars

\* ------------------------------------------------------------- properties
\* The rows of records that task c inserted, in storage order.
StoredBy(c) == SelectSeq(records, LAMBDA r : r.from = c)

\* C1: whatever ends the receive loop of a streaming connection (a close
\* frame, a transport error, a pong that could not be sent, the end of the
\* stream) and however many samples were stored before, the task goes on to
\* its termination step and nowhere else, and that step -- the only way a
\* task returns -- leaves the agent's row with online = false.  (SpecStream:
\* the database answers; a failed write is logged and swallowed.)
C1_LoopExitMarksOffline ==
    [][\A c \in ConnIds :
        /\ (conn[c].pc \in {"recv", "pong"} /\ conn'[c].pc \notin {"recv", "insert", "pong"})
              => /\ conn'[c].pc = "offline"
                 /\ conn'[c].exit \in {"Close", "Err", "End", "Pong"}
        /\ (conn[c].pc = "offline" /\ conn'[c] # conn[c])
              => conn'[c].pc = "done"
        /\ (conn[c].pc # "done" /\ conn'[c].pc = "done")
              => /\ conn[c].pc = "offline"
                 /\ conn[c].client_id \in DOMAIN clients'
                 /\ clients'[conn[c].client_id].online = FALSE
                 /\ clients'[conn[c].client_id].last_seen_at = Some(now)]_vars

\* One connection has ended at the end of the stream without a single
\* message, another after a stored sample on a pong that was not sent, and
\* the agents of both are offline.
C1_Witness ==
    /\ conn[1].pc = "done" /\ conn[1].exit = "End" /\ conn[1].nrecv = 0
    /\ conn[1].marked /\ ~clients[conn[1].client_id].online
    /\ conn[2].pc = "done" /\ conn[2].exit = "Pong"
    /\ Len(StoredBy(2)) = 1
    /\ conn[2].marked /\ ~clients[conn[2].client_id].online
    /\ conn[1].client_id # conn[2].client_id

\* C2: the first step of a streaming connection's task, taken before any
\* message of the connection is received, leaves the agent's row with
\* online = true and last_seen_at no older than the time of the upgrade;
\* a message is received only after that step, so this holds whether or
\* not a sample ever arrives.  (SpecStream: the database answers.)
C2_OnlineBeforeFirstMessage ==
    [][\A c \in ConnIds :
        /\ (conn[c].pc = "none" /\ conn'[c].pc # "none")
              => /\ conn'[c].pc = "online"
                 /\ conn'[c].nrecv = 0
                 /\ conn'[c].t0 = now
        /\ (conn[c].pc = "online" /\ conn'[c] # conn[c])
              => /\ conn'[c].pc = "recv"
                 /\ conn'[c].nrecv = 0
                 /\ conn[c].client_id \in DOMAIN clients'
                 /\ clients'[conn[c].client_id].online = TRUE
                 /\ clients'[conn[c].client_id].last_seen_at # None
                 /\ clients'[conn[c].client_id].last_seen_at[1] >= conn[c].t0
        /\ (conn'[c].nrecv # conn[c].nrecv \/ Len(StoredBy(c)') # Len(StoredBy(c)))
              => conn[c].pc \in {"recv", "insert"}]_vars

\* A connection, the only one so far, waits for its first message some time
\* after the start; its agent is online and was last seen now.
C2_Witness ==
    \E c \in ConnIds :
        /\ conn[c].pc = "recv" /\ conn[c].nrecv = 0 /\ records = <<>>
        /\ \A d \in ConnIds \ {c} : conn[d].pc = "none"
        /\ now > 0
        /\ clients[conn[c].client_id].online
        /\ clients[conn[c].client_id].last_seen_at = Some(now)

\* C3: a step changes an agent's online flag from true to false only when
\* it is the termination step of one of that agent's streaming connections;
\* so an agent that has a sample stored over HTTP and never had a streaming
\* connection is online, whatever else has happened since (info uploads,
\* admin edits, logins and logouts, restarts, the passage of time).
C3_OnlyStreamEndMarksOffline ==
    /\ [][\A id \in DOMAIN clients \cap DOMAIN clients' :
            (clients[id].online /\ ~clients'[id].online)
                => \E c \in ConnIds :
                       /\ conn[c].client_id = id
                       /\ conn[c].pc = "offline"
                       /\ conn'[c].pc = "done"]_vars
    /\ [](\A id \in DOMAIN clients :
            (/\ \E k \in DOMAIN records :
                    records[k].client_id = id /\ records[k].from = 0
             /\ \A c \in ConnIds : conn[c].client_id # id)
                => clients[id].online)

\* An agent reported once over HTTP and never streamed; since then the
\* clock has advanced and an administrator has edited the agent and logged
\* out: the agent is still online.
C3_Witness ==
    \E id \in DOMAIN clients :
        /\ \E k \in DOMAIN records :
               records[k].client_id = id /\ records[k].from = 0
        /\ \A c \in ConnIds : conn[c].pc = "none"
        /\ rep = NoReport
        /\ clients[id].hidden
        /\ nSessions = 1 /\ sessions = {}
        /\ clients[id].last_seen_at # None
        /\ clients[id].last_seen_at[1] < now
        /\ clients[id].online

\* The streaming connections of agent id that are open and have marked it
\* online.
OpenStreams(id) ==
    {c \in ConnIds : /\ conn[c].client_id = id
                     /\ conn[c].pc \in {"recv", "insert", "refresh", "pong"}
                     /\ conn[c].marked}

\* C4: no step of an HTTP report changes an online flag from true to
\* false; the status write of an authenticated report leaves the agent's
\* row -- online through an open streaming connection or not -- with
\* online = true and last_seen_at = the time of the write; and storing the
\* report's sample changes no agent's row.  (A status write the database
\* refuses ends the request without changing anything.)
C4_ReportKeepsOnline ==
    [][/\ rep' # rep
          => \A id \in DOMAIN clients \cap DOMAIN clients' :
                 clients[id].online => clients'[id].online
       /\ (rep.pc = "online" /\ rep'.pc = "insert")
          => /\ dbUp
             /\ rep.client_id \in DOMAIN clients
                   => /\ clients'[rep.client_id].online = TRUE
                      /\ clients'[rep.client_id].last_seen_at = Some(now)
       /\ (rep.pc = "online" /\ rep'.pc = "idle")
          => UNCHANGED db
       /\ (rep.pc = "insert" /\ rep'.pc = "idle" /\ records' # records)
          => /\ records' = Append(records, records'[Len(records')])
             /\ records'[Len(records')].from = 0
             /\ records'[Len(records')].client_id = rep.client_id
             /\ UNCHANGED clients]_vars

\* The report of an agent with an open streaming connection has written
\* the status and is about to store its sample: the agent is online and
\* was last seen now, after the start.
C4_Witness ==
    /\ rep.pc = "insert"
    /\ OpenStreams(rep.client_id) # {}
    /\ rep.client_id \in DOMAIN clients
    /\ clients[rep.client_id].online
    /\ clients[rep.client_id].last_seen_at = Some(now)
    /\ now > 0

\* C5: every streaming connection that has marked its agent online runs
\* the offline write on every exit path: a task that marked its agent
\* online and is no longer running -- it returned, or it was cancelled
\* with the server -- has run the write.
C5_EndedTaskRanOfflineWrite ==
    \A c \in ConnIds :
        (conn[c].marked /\ conn[c].pc \notin LivePcs \cup {"none"})
            => conn[c].pc = "done"

\* The server has stopped; a task that had marked its agent online was
\* dropped at its await, and the agent's row still says online.
C5_Witness ==
    \E c \in ConnIds :
        /\ ~up
        /\ conn[c].pc = "dropped"
        /\ conn[c].marked
        /\ conn[c].client_id \in DOMAIN clients
        /\ clients[conn[c].client_id].online

\* C6: the step that receives a text frame that is no sample stores
\* nothing, changes no agent's row and leaves the task in its receive
\* loop; from there a well-formed text frame is dispatched to the insert
\* however many bad frames came before, and the insert stores its sample.
\* (SpecStream: the database answers.)
C6_BadFrameSkipped ==
    /\ [][\A c \in ConnIds :
            /\ conn'[c].bad # conn[c].bad
                  => /\ conn[c].pc = "recv" /\ conn'[c].pc = "recv"
                     /\ conn'[c].bad = conn[c].bad + 1
                     /\ conn'[c].nrecv = conn[c].nrecv + 1
                     /\ conn'[c].exit = ""
                     /\ UNCHANGED <<clients, records, nRecords>>
            /\ (conn[c].pc = "insert" /\ conn'[c] # conn[c])
                  => /\ conn'[c].pc = "refresh"
                     /\ records' = Append(records, records'[Len(records')])
                     /\ records'[Len(records')].from = c
                     /\ records'[Len(records')].frame = conn[c].nrecv
                     /\ records'[Len(records')].client_id = conn[c].client_id
                     /\ records'[Len(records')].cpu = conn[c].rec[1].cpu]_vars
    /\ [](\A c \in ConnIds :
            conn[c].pc = "recv"
                => \A t \in Texts :
                       LET next == ws_dispatch(conn[c], Message("Text", t, 0))
                       IN  IF ParseRecordInput(t) # None
                           THEN next.pc = "insert" /\ next.rec = ParseRecordInput(t)
                                /\ next.bad = conn[c].bad
                           ELSE next.pc = "recv" /\ next.bad = conn[c].bad + 1)

\* A connection received a text frame that was no sample and then a
\* well-formed one: the second frame's sample is stored, the task is still
\* in its loop and the agent is online.
C6_Witness ==
    \E c \in ConnIds :
        /\ conn[c].nrecv = 2 /\ conn[c].bad = 1
        /\ conn[c].pc = "recv"
        /\ Len(StoredBy(c)) = 1
        /\ StoredBy(c)[1].frame = 2
        /\ clients[conn[c].client_id].online

\* C7: a streaming connection handles one message at a time.  The rows a
\* connection stored are in storage (id) order in the order their frames
\* were received, none comes from a frame not yet received, and while the
\* insert for frame k is pending no row of frame k is stored and no further
\* frame is read: the next frame is read only from the receive await,
\* with no sample in hand.
C7_SequentialPerConnection ==
    /\ [](\A c \in ConnIds :
            /\ \A i, j \in DOMAIN records :
                   i < j => records[i].id < records[j].id
            /\ \A i, j \in DOMAIN StoredBy(c) :
                   i < j => StoredBy(c)[i].frame < StoredBy(c)[j].frame
            /\ \A i \in DOMAIN StoredBy(c) :
                   /\ StoredBy(c)[i].frame <= conn[c].nrecv
                   /\ conn[c].pc = "insert"
                         => StoredBy(c)[i].frame < conn[c].nrecv
            /\ conn[c].rec # None <=> conn[c].pc = "insert")
    /\ [][\A c \in ConnIds :
            conn'[c].nrecv # conn[c].nrecv
                => /\ conn[c].pc = "recv"
                   /\ conn[c].rec = None
                   /\ conn'[c].nrecv = conn[c].nrecv + 1]_vars

\* A connection stored the samples of its first and its second frame, in
\* that order.
C7_Witness ==
    \E c \in ConnIds :
        /\ Len(StoredBy(c)) = 2
        /\ StoredBy(c)[1].frame = 1
        /\ StoredBy(c)[2].frame = 2
        /\ StoredBy(c)[1].id < StoredBy(c)[2].id

\* The Authorization header of req is "Bearer " followed by the token of
\* an agent in storage.
ValidAgentBearer(req) ==
    \E id \in DOMAIN clients :
        req.authorization = Some(HeaderValue(TRUE, <<"Bearer ">> \o clients[id].token))

\* req has no Authorization header, or one that is not of the form
\* "Bearer <token>" in visible ASCII.
NoBearer(req) ==
    \/ req.authorization = None
    \/ ~req.authorization[1].ascii
    \/ Head(req.authorization[1].text) # "Bearer "

\* C8: a request for a stream whose bearer is missing, malformed or not the
\* token of an agent in storage is never upgraded and spawns no task; it
\* is answered Unauthorized (the lookup of a well-formed bearer that the
\* database refuses is answered with the storage error instead).  The
\* request handler itself writes nothing: the step that spawns a task
\* leaves every table as it is.  Once a task runs, nothing but the end of
\* its own loop or the end of the process ends it: the token is not looked
\* up again, even when the agent is deleted.
C8_StreamRejectedBeforeUpgrade ==
    /\ [](\A req \in Requests :
            ~ValidAgentBearer(req)
                => /\ ws_report_response(req) # Status(101)
                   /\ (dbUp \/ NoBearer(req))
                         => ws_report_response(req)
                                = [status |-> 401, error |-> "UNAUTHORIZED"]
                   /\ \A c \in ConnIds : ws_report_tasks(req, c) = conn)
    /\ [][\A c \in ConnIds :
            /\ (conn[c].pc = "none" /\ conn'[c].pc # "none")
                  => /\ conn'[c].client_id \in DOMAIN clients
                     /\ UNCHANGED db
            /\ (conn[c].pc \in {"recv", "insert", "refresh", "pong"}
                    /\ conn'[c] # conn[c])
                  => /\ conn'[c].pc \in LivePcs \cup {"dropped"}
                     /\ conn'[c].pc = "dropped" <=> ~up'
                     /\ conn'[c].pc = "offline" => conn'[c].exit # ""]_vars

\* A task goes on receiving after its agent was deleted, while a new
\* request with the same token is answered Unauthorized.
C8_Witness ==
    \E c \in ConnIds :
        /\ conn[c].pc = "recv"
        /\ conn[c].nrecv = 1
        /\ conn[c].client_id \notin DOMAIN clients
        /\ dbUp
        /\ ws_report_response(
               Request(Some(HeaderValue(TRUE, <<"Bearer ">> \o AgentToken(conn[c].client_id))),
                       None)) = Failed("Unauthorized")

\* A request that carries bearer in its Authorization header and nothing
\* else.
WithBearer(bearer) ==
    Request(Some(HeaderValue(TRUE, <<"Bearer ">> \o bearer)), None)

\* C9: while the database answers, the authentication of the report, info
\* and stream endpoints returns, for a request whose bearer is the token
\* of an agent in storage, that agent's row -- the one whose token equals
\* the bearer -- and the endpoint goes on; for every other request
\* (no bearer, a malformed one, a token never issued, the token of a
\* deleted agent, a session token) it returns Unauthorized and each of the
\* three endpoints answers 401.  (A lookup the database refuses is
\* answered with the storage error, never with an identity.)
C9_AgentAuthentication ==
    \A req \in Requests :
        IF ValidAgentBearer(req)
        THEN dbUp =>
               /\ authenticate_agent(req).kind = "Ok"
               /\ \E id \in DOMAIN clients :
                      authenticate_agent(req).client = Some(clients[id])
               /\ <<"Bearer ">> \o authenticate_agent(req).client[1].token
                      = req.authorization[1].text
               /\ upload_report_rejection(req, Text(TRUE, RequiredFields, {}, 1, 0)) = None
               /\ upload_basic_info_response(req, BasicInfo("", None, None)).status = 200
               /\ ws_report_response(req).status = 101
        ELSE /\ authenticate_agent(req).kind # "Ok"
             /\ authenticate_agent(req).client = None
             /\ (dbUp \/ NoBearer(req)) =>
                   /\ authenticate_agent(req).kind = "Unauthorized"
                   /\ upload_report_rejection(req, Text(TRUE, RequiredFields, {}, 1, 0))
                         = Some([status |-> 401, error |-> "UNAUTHORIZED"])
                   /\ upload_basic_info_response(req, BasicInfo("", None, None))
                         = [status |-> 401, error |-> "UNAUTHORIZED"]
                   /\ ws_report_response(req)
                         = [status |-> 401, error |-> "UNAUTHORIZED"]

\* Of two registered agents the first has been deleted: the second one's
\* token authenticates as the second agent, the first one's is
\* Unauthorized.
C9_Witness ==
    /\ dbUp
    /\ DOMAIN clients = {2}
    /\ authenticate_agent(WithBearer(AgentToken(2))) = AuthResult("Ok", Some(clients[2]))
    /\ authenticate_agent(WithBearer(AgentToken(1))) = AuthResult("Unauthorized", None)

\* C10: a request whose bearer (from the header, or else from the cookie)
\* is an agent token, stored or not, gets no user identity attached and
\* does not pass the admin gate; a request whose bearer is a session
\* token, live or not, authenticates on none of the agent endpoints.
C10_TokenSpacesDisjoint ==
    \A req \in Requests :
        /\ (extract_token(req) # None
              /\ \E n \in 1..AuthClients : extract_token(req)[1] = AgentToken(n))
             => /\ auth_middleware(req) = None
                /\ require_auth_middleware(req).status \in {401, 500}
                /\ require_auth_middleware(req).user = None
                /\ admin_response(req).status # 200
        /\ (extract_agent_token(req) # None
              /\ \E n \in 1..AuthSessions : extract_agent_token(req)[1] = SessionToken(n))
             => /\ authenticate_agent(req).kind \in {"Unauthorized", "Database"}
                /\ authenticate_agent(req).client = None
                /\ upload_report_rejection(req, Text(TRUE, RequiredFields, {}, 1, 0)) # None
                /\ upload_basic_info_response(req, BasicInfo("", None, None)).status # 200
                /\ ws_report_response(req).status # 101

\* An agent is registered and a session is live, each credential works in
\* its own space -- and in a Cookie header the agent's token is refused
\* like in the Authorization header.
C10_Witness ==
    /\ dbUp
    /\ authenticate_agent(WithBearer(AgentToken(1))).kind = "Ok"
    /\ require_auth_middleware(WithBearer(SessionToken(1))).status = 200
    /\ require_auth_middleware(WithBearer(AgentToken(1))).status = 401
    /\ require_auth_middleware(
           Request(None, Some(HeaderValue(TRUE, <<CookiePair("token", AgentToken(1))>>)))).status = 401
    /\ auth_middleware(WithBearer(AgentToken(1))) = None
    /\ authenticate_agent(WithBearer(SessionToken(1))).kind = "Unauthorized"

\* C11: a session row whose expires_at is not later than the current time
\* is never returned by the session lookup, and the lookup returns no row
\* but an unexpired one; a request whose bearer (header or cookie) is the
\* token of such a row gets no identity from the optional layer and does
\* not pass the admin gate (401 while the database answers).
C11_ExpiredSessionsInvisible ==
    /\ \A s \in sessions :
           s.expires_at <= now
               => /\ find_session_by_token(s.token) = None
                  /\ \A req \in Requests :
                         extract_token(req) = Some(s.token)
                             => /\ auth_middleware(req) = None
                                /\ require_auth_middleware(req).status # 200
                                /\ require_auth_middleware(req).user = None
                                /\ dbUp => require_auth_middleware(req).status = 401
    /\ \A b \in Bearers :
           find_session_by_token(b) # None
               => /\ find_session_by_token(b)[1] \in sessions
                  /\ find_session_by_token(b)[1].token = b
                  /\ find_session_by_token(b)[1].expires_at > now

\* The first session expires at this very moment and its row is still in
\* storage: its token is refused in the header and in the cookie, while
\* the second session, created later, still passes the gate.
C11_Witness ==
    /\ dbUp
    /\ \E s \in sessions : s.token = SessionToken(1) /\ s.expires_at = now
    /\ require_auth_middleware(WithBearer(SessionToken(1))).status = 401
    /\ require_auth_middleware(
           Request(None, Some(HeaderValue(TRUE, <<CookiePair("token", SessionToken(1))>>)))).status = 401
    /\ auth_middleware(WithBearer(SessionToken(1))) = None
    /\ require_auth_middleware(WithBearer(SessionToken(2))).status = 200

\* The bearer of req is token: it stands in a well-formed Authorization
\* header, or there is no such header and it is the value of the first
\* cookie named "token".
Carries(req, token) ==
    IF ~NoBearer(req)
    THEN req.authorization[1].text = <<"Bearer ">> \o token
    ELSE /\ req.cookie # None
         /\ req.cookie[1].ascii
         /\ \E k \in DOMAIN req.cookie[1].text :
                /\ req.cookie[1].text[k] = CookiePair("token", token)
                /\ \A j \in 1..(k - 1) : req.cookie[1].text[j].name # "token"

\* The stored, unexpired sessions whose token req carries and whose user
\* exists.
LiveSessions(req) ==
    {s \in sessions : /\ Carries(req, s.token)
                      /\ s.expires_at > now
                      /\ \E u \in users : u.id = s.user_id}

\* C12: the admin gate lets a request through exactly when its bearer
\* resolves to a stored, unexpired session whose user exists (and the
\* database answers), attaching that user; every other request is answered
\* 401 in place of the handler.  Accordingly a step in which an admin
\* operation changes storage -- a client added by an administrator, a
\* client edited, a client deleted -- is taken only while such a session
\* exists.
C12_AdminBehindGate ==
    /\ [](\A req \in Requests :
            IF dbUp /\ LiveSessions(req) # {}
            THEN /\ require_auth_middleware(req).status = 200
                 /\ \E s \in LiveSessions(req), u \in users :
                        /\ u.id = s.user_id
                        /\ require_auth_middleware(req).user = Some(u)
                 /\ admin_response(req).status = 200
            ELSE /\ require_auth_middleware(req).status # 200
                 /\ require_auth_middleware(req).user = None
                 /\ admin_response(req).status # 200
                 /\ dbUp => /\ require_auth_middleware(req).status = 401
                            /\ admin_response(req).status = 401)
    /\ [][(\/ (\E id \in DOMAIN clients' \ DOMAIN clients :
                  clients'[id].name = "Added")
            \/ DOMAIN clients \ DOMAIN clients' # {}
            \/ (\E id \in DOMAIN clients \cap DOMAIN clients' :
                  clients'[id].hidden # clients[id].hidden))
           => /\ dbUp
              /\ \E req \in Requests : LiveSessions(req) # {}]_vars

\* An administrator has added a client, hidden it and deleted another;
\* by now the only session has expired and its token is answered 401.
C12_Witness ==
    /\ dbUp
    /\ nClients = 2
    /\ \E id \in DOMAIN clients : clients[id].name = "Added" /\ clients[id].hidden
    /\ Cardinality(DOMAIN clients) = 1
    /\ sessions # {}
    /\ \A s \in sessions : s.expires_at <= now
    /\ admin_response(WithBearer(SessionToken(1))).status = 401

\* C13: the optional-identity layer never answers in place of the service
\* it wraps -- whatever the request carries and whether or not the lookups
\* succeed, its response is the handler's; it attaches the owning user
\* when the bearer resolves to a stored, unexpired session (and the
\* database answers), and nothing otherwise.
C13_OptionalLayerNeverRejects ==
    \A req \in Requests :
        /\ \A inner \in {Status(200), Status(101), Failed("Unauthorized"),
                          Failed("BadRequest"), Failed("Database")} :
               auth_middleware_response(req, inner) = inner
        /\ auth_middleware_response(req, login_response(AdminUsername, AdminPassword))
               = login_response(AdminUsername, AdminPassword)
        /\ auth_middleware_response(req, ws_report_response(req))
               = ws_report_response(req)
        /\ IF dbUp /\ LiveSessions(req) # {}
           THEN /\ \E s \in LiveSessions(req), u \in users :
                       /\ u.id = s.user_id
                       /\ auth_middleware(req) = Some(u)
                       /\ auth_middleware_extensions(req)
                              = {[type |-> "User", value |-> u]}
           ELSE /\ auth_middleware(req) = None
                /\ auth_middleware_extensions(req) = {}

\* The database does not answer: a request with the token of a live
\* session gets no identity attached, and an agent's request with that
\* bearer is still answered by its handler.
C13_Witness ==
    /\ ~dbUp
    /\ \E s \in sessions : s.token = SessionToken(1) /\ s.expires_at > now
    /\ auth_middleware(WithBearer(SessionToken(1))) = None
    /\ auth_middleware_response(WithBearer(SessionToken(1)),
                                ws_report_response(WithBearer(SessionToken(1))))
           = Failed("Database")

\* C14: GET /me answers 200 with the identity the optional layer attached
\* when the caller has a valid session, and 200 with a null body when the
\* caller is anonymous.
C14_MeReturnsIdentity ==
    \A req \in Requests :
        /\ me_response(req).status = 200
        /\ me_response(req).json =
              IF auth_middleware(req) # None
              THEN Some(UserInfo(auth_middleware(req)[1]))
              ELSE None

\* A caller with a live session, to whom the optional layer attaches the
\* user, is answered 500 by GET /me.
C14_Witness ==
    /\ dbUp
    /\ auth_middleware(WithBearer(SessionToken(1))) # None
    /\ auth_middleware(WithBearer(SessionToken(1)))[1].username = AdminUsername
    /\ me_response(WithBearer(SessionToken(1))).status = 500

\* C15: a login with a username nobody has and a login with a stored
\* username and a wrong password are answered alike -- the same status,
\* error kind and message, 400 BAD_REQUEST while the database answers --
\* and neither creates a session, returns a token or sets a cookie.
C15_LoginFailuresAlike ==
    \A u \in users :
        \A unknown \in {"nobody", ""}, wrong \in {"wrong", ""},
           any \in {"wrong", "", AdminPassword} :
            /\ find_user_by_username(unknown) = None
            /\ ~verify_password(wrong, u.password_hash)
            /\ login_reply(unknown, any) = login_reply(u.username, wrong)
            /\ login_reply(unknown, any).token = None
            /\ login_reply(unknown, any).set_cookie = None
            /\ login_sessions(unknown, any) = sessions
            /\ login_sessions(u.username, wrong) = sessions
            /\ login_response(unknown, any) = login_response(u.username, wrong)
            /\ dbUp => /\ login_reply(unknown, any).status = 400
                       /\ login_reply(unknown, any).error = "BAD_REQUEST"
                       /\ login_reply(unknown, any).message
                             = <<"BadRequest", "Invalid username or password">>
                       /\ login_response(unknown, any)
                             = [status |-> 400, error |-> "BAD_REQUEST"]

\* With one session stored already, the administrator's password opens a
\* second one, while an unknown username and a wrong password are both
\* answered 400 and leave the sessions as they are.
C15_Witness ==
    /\ dbUp
    /\ Cardinality(sessions) = 1
    /\ login_reply(AdminUsername, AdminPassword).status = 200
    /\ login_sessions(AdminUsername, AdminPassword) # sessions
    /\ login_reply("nobody", AdminPassword).status = 400
    /\ login_reply(AdminUsername, "wrong").status = 400
    /\ login_sessions(AdminUsername, "wrong") = sessions

\* The values of the cookies named "token" in the Cookie header of req.
TokenCookies(req) ==
    IF req.cookie = None \/ ~req.cookie[1].ascii THEN {}
    ELSE {req.cookie[1].text[k].value :
              k \in {j \in DOMAIN req.cookie[1].text :
                         req.cookie[1].text[j].name = "token"}}

C17_StatusFailureDoesNotAbort ==
    [][/\ (rep.pc = "online" /\ rep' # rep /\ up')
             => rep'.pc = "insert"
       /\ \A c \in ConnIds :
             (conn[c].pc \in {"online", "refresh"} /\ conn'[c] # conn[c] /\ up')
                 => conn'[c].pc = "recv"]_vars

\* An authenticated report is about to write the agent's status while the
\* database does not answer.
C17_Witness ==
    /\ up
    /\ ~dbUp
    /\ rep.pc = "online"
    /\ rep.body # None
    /\ upload_report_online_response = Some(Failed("Database"))

\* C18: when the insert of an HTTP report's sample fails, the caller gets
\* an error of kind Internal with a server-error status; the
\* acknowledgement is returned only when the sample is stored.
C18_InsertFailureIsInternal ==
    rep.pc = "insert"
        => IF dbUp /\ rep.client_id \in DOMAIN clients
           THEN upload_report_insert_response = Status(200)
           ELSE upload_report_insert_response = Failed("Internal")

\* A report has written the status and is about to insert its sample
\* while the database does not answer: the response is the storage error.
C18_Witness ==
    /\ up
    /\ ~dbUp
    /\ rep.pc = "insert"
    /\ upload_report_insert_response = Failed("Database")

\* C19: an HTTP report and a stream frame of the same agent, processed
\* concurrently on an open stream.  Every status write, whichever task
\* makes it and wherever it falls among the other task's writes, leaves
\* the agent online with last_seen_at the time of that write, and nothing
\* else changes the agent's row: the row always shows the latest write.
\* Every insert appends exactly one row carrying its task's sample, and
\* nothing else changes the records.  So once both samples are stored and
\* both tasks are back at rest the agent is online, last_seen_at is not
\* older than the stream's row, row ids are distinct and each frame of a
\* stream has one row.
ReportWrites(id) ==
    rep.pc = "online" /\ rep'.pc = "insert" /\ rep.client_id = id

StreamWrites(id) ==
    \E c \in ConnIds :
        /\ conn[c].pc \in {"online", "refresh"}
        /\ conn'[c].pc = "recv"
        /\ conn[c].client_id = id

RaceDone(id, c) ==
    /\ rep.pc = "idle"
    /\ conn[c].pc = "recv"
    /\ conn[c].client_id = id
    /\ \E i \in DOMAIN records : records[i].client_id = id /\ records[i].from = 0
    /\ \E i \in DOMAIN records : records[i].client_id = id /\ records[i].from = c

C19_ConcurrentWritesConverge ==
    /\ [](\A id \in DOMAIN clients, c \in ConnIds :
            RaceDone(id, c) =>
                /\ clients[id].online
                /\ clients[id].last_seen_at # None
                /\ \A i \in DOMAIN records :
                      records[i].from = c
                          => clients[id].last_seen_at[1] >= records[i].time
                /\ \A i, j \in DOMAIN records :
                      (/\ i # j
                       /\ records[i].from = c
                       /\ records[j].from = c)
                          => records[i].frame # records[j].frame
                /\ \A i, j \in DOMAIN records :
                      i # j => records[i].id # records[j].id)
    /\ [][/\ \A id \in DOMAIN clients :
               /\ (ReportWrites(id) \/ StreamWrites(id))
                     => /\ clients'[id].online
                        /\ clients'[id].last_seen_at = Some(now)
               /\ clients'[id] # clients[id]
                     => (ReportWrites(id) \/ StreamWrites(id))
          /\ (rep.pc = "insert" /\ rep' # rep)
                => /\ Len(records') = Len(records) + 1
                   /\ SubSeq(records', 1, Len(records)) = records
                   /\ records'[Len(records')].client_id = rep.client_id
                   /\ records'[Len(records')].from = 0
                   /\ records'[Len(records')].cpu = rep.body[1].cpu
                   /\ records'[Len(records')].gpu = rep.body[1].gpu
          /\ \A c \in ConnIds :
               (conn[c].pc = "insert" /\ conn'[c] # conn[c])
                => /\ Len(records') = Len(records) + 1
                   /\ SubSeq(records', 1, Len(records)) = records
                   /\ records'[Len(records')].client_id = conn[c].client_id
                   /\ records'[Len(records')].from = c
                   /\ records'[Len(records')].frame = conn[c].nrecv
                   /\ records'[Len(records')].cpu = conn[c].rec[1].cpu
                   /\ records'[Len(records')].gpu = conn[c].rec[1].gpu
          /\ records' # records
                => \/ rep.pc = "insert" /\ rep' # rep
                   \/ \E c \in ConnIds : conn[c].pc = "insert" /\ conn'[c] # conn[c]
         ]_vars

\* Both samples are stored, the report's between the frame's insert and
\* the stream's status write: the stream stored its frame at time 0, the
\* report stored its sample at time 1 (its status write came before that),
\* and the stream made the last status write, at time 2.
C19_Witness ==
    /\ RaceDone(1, 1)
    /\ Len(records) = 2
    /\ records[1].from = 1
    /\ records[1].time = 0
    /\ records[2].from = 0
    /\ records[2].time = 1
    /\ clients[1].online
    /\ clients[1].last_seen_at = Some(2)

\* C20: every registration creates a new agent identity.  A request that
\* creates an agent adds exactly one row, whose id and token no stored
\* agent has, and leaves the other rows alone (so two registrations with
\* the same name give two identities); in every reachable state the
\* stored agent ids are pairwise distinct, and so are the stored tokens.
C20_RegistrationsDistinct ==
    /\ [](\A i, j \in DOMAIN clients :
            i # j => /\ clients[i].id # clients[j].id
                     /\ clients[i].token # clients[j].token)
    /\ [][nClients' # nClients
            => \E new \in DOMAIN clients' \ DOMAIN clients :
                  /\ DOMAIN clients' = DOMAIN clients \cup {new}
                  /\ \A old \in DOMAIN clients :
                        /\ clients'[old] = clients[old]
                        /\ clients'[new].id # clients[old].id
                        /\ clients'[new].token # clients[old].token]_vars

\* Two agents registered with the same (default) name are both stored.
C20_Witness ==
    \E i, j \in DOMAIN clients :
        /\ i # j
        /\ clients[i].name = "New Server"
        /\ clients[j].name = "New Server"
        /\ clients[i].id # clients[j].id
        /\ clients[i].token # clients[j].token

\* C21: GET /clients and GET /nodes list exactly the agents whose hidden
\* flag is false, each once, and no public response (the two listings and
\* GET /recent/:id) has a field for an agent's token or internal remark.
VisibleIds == {i \in DOMAIN clients : ~clients[i].hidden}

Secrets == {"token", "remark"}

C21_PublicListingsHideHidden ==
    /\ \A resp \in get_clients :
          resp.status = 200 =>
              /\ {resp.body[k].client.id : k \in DOMAIN resp.body} = VisibleIds
              /\ Len(resp.body) = Cardinality(VisibleIds)
              /\ \A k \in DOMAIN resp.body :
                    /\ DOMAIN resp.body[k].client \cap Secrets = {}
                    /\ resp.body[k].status # None
                          => DOMAIN resp.body[k].status[1] \cap Secrets = {}
    /\ \A resp \in get_nodes :
          resp.status = 200 =>
              /\ {resp.body[k].id : k \in DOMAIN resp.body} = VisibleIds
              /\ Len(resp.body) = Cardinality(VisibleIds)
              /\ \A k \in DOMAIN resp.body : DOMAIN resp.body[k] \cap Secrets = {}
    /\ \A id \in ClientIds, limit \in Limits :
          \A resp \in get_recent_records_response(id, limit) :
              resp.status = 200 =>
                  \A k \in DOMAIN resp.body : DOMAIN resp.body[k] \cap Secrets = {}

\* One agent is hidden, another is visible, online, has a sample and an
\* internal remark, and the listing is answered.
C21_Witness ==
    /\ dbUp
    /\ \E h, v \in DOMAIN clients :
          /\ clients[h].hidden
          /\ ~clients[v].hidden
          /\ clients[v].online
          /\ clients[v].remark = "rack 12"
          /\ RecordsOf(v) # {}
          /\ \E resp \in get_clients :
                /\ Len(resp.body) = 1
                /\ resp.body[1].client.id = v
                /\ resp.body[1].status # None

\* C22: GET /recent/:id returns none of the samples of an agent whose
\* hidden flag is true.
C22_RecentOmitsHidden ==
    \A id \in DOMAIN clients, limit \in Limits :
        clients[id].hidden =>
            \A resp \in get_recent_records_response(id, limit) :
                resp.status = 200 => resp.body = <<>>

\* A hidden agent has a stored sample and GET /recent/:id returns it.
C22_Witness ==
    /\ dbUp
    /\ \E id \in DOMAIN clients :
          /\ clients[id].hidden
          /\ \E resp \in get_recent_records_response(id, 60) :
                /\ resp.status = 200
                /\ Len(resp.body) >= 1
                /\ resp.body[1].client_id = id

\* C23: deleting an agent removes its identity and all of its samples,
\* and its token authenticates no more.  In every reachable state, also
\* when the deletion falls between the steps of a report or of a stream of
\* that agent, every stored sample belongs to a stored agent, and an
\* identity that was deleted is never stored again.
DeletedIds == (1..nClients) \ DOMAIN clients

C23_DeletionCascades ==
    /\ [](/\ \A i \in DOMAIN records : records[i].client_id \in DOMAIN clients
          /\ \A id \in DeletedIds :
                /\ authenticate_agent(WithBearer(AgentToken(id))).kind # "Ok"
                /\ find_client_by_id(id) = None
                /\ RecordsOf(id) = {})
    /\ [][/\ \A id \in DOMAIN clients \ DOMAIN clients' :
               \A i \in DOMAIN records' : records'[i].client_id # id
          /\ \A id \in DeletedIds : id \notin DOMAIN clients']_vars

\* The agent was deleted between the status write and the insert of its
\* report, or while its stream was about to store a frame.
C23_Witness ==
    /\ dbUp
    /\ DeletedIds # {}
    /\ \/ rep.pc = "insert" /\ rep.client_id \in DeletedIds
       \/ \E c \in ConnIds : conn[c].pc = "insert" /\ conn[c].client_id \in DeletedIds

\* C24: an admin operation on an agent id that is not stored (get client,
\* get client token, edit client, delete client) answers with the
\* NotFound error kind and changes nothing.
C24_AbsentIdIsNotFound ==
    \A req \in HumanCallsAuth, id \in ClientIds \ DOMAIN clients :
        admin_response(req) = Status(200) =>
            /\ get_client(req, id) = Failed("NotFound")
            /\ get_client_token(req, id) = Failed("NotFound")
            /\ \A edit \in PublicEdits :
                  /\ edit_client_response(req, id, edit) = Failed("NotFound")
                  /\ update_client(id, edit) = clients
            /\ delete_client_response(req, id) = Failed("NotFound")
            /\ delete_client(id) = clients
            /\ delete_cascade(records, id) = records

\* A logged-in admin edits and deletes an agent id that is not stored: both
\* are answered 200, while the two reads are answered NotFound.
C24_Witness ==
    \E req \in HumanCallsAuth, id \in ClientIds \ DOMAIN clients :
        /\ admin_response(req) = Status(200)
        /\ get_client(req, id) = Failed("NotFound")
        /\ get_client_token(req, id) = Failed("NotFound")
        /\ edit_client_response(req, id, EditClientRequest(None, None, Some(TRUE)))
               = Status(200)
        /\ delete_client_response(req, id) = Status(200)
        /\ update_client(id, EditClientRequest(None, None, Some(TRUE))) = clients
        /\ delete_client(id) = clients

\* C25: what is done as agent A leaves every other agent alone.  A step of
\* a report or of a stream task of A (connect, status writes, insert of a
\* frame, termination) and an info upload of A leave every other agent's
\* row and samples as they were; and a pending step of a report or of a
\* stream task can be taken wherever the tasks of other agents are, also
\* when one of them waits in receiver.next() or before a database call.
RowsOf(rows, id) == SelectSeq(rows, LAMBDA r : r.client_id = id)

OthersUnchanged(a) ==
    \A b \in DOMAIN clients \ {a} :
        /\ b \in DOMAIN clients'
        /\ clients'[b] = clients[b]
        /\ RowsOf(records', b) = RowsOf(records, b)

C25_AgentsIndependent ==
    /\ [](/\ \A req \in AgentCalls :
                authenticate_agent(req).kind = "Ok" =>
                    \A b \in DOMAIN clients \ {authenticate_agent(req).client[1].id} :
                        upload_basic_info_clients(
                            req, BasicInfo("EPYC", Some("10.0.0.1"), None))[b]
                                = clients[b]
          /\ rep.pc = "online" => ENABLED upload_report_online
          /\ (rep.pc = "insert" /\ nRecords < CrossRecords)
                => ENABLED upload_report_insert(CrossRecords)
          /\ \A c \in ConnIds :
                /\ conn[c].pc = "online" => ENABLED ws_online(c)
                /\ conn[c].pc = "recv"
                      => ENABLED ws_recv(c, Message("None", NoText, 0), CrossFrames)
                /\ (conn[c].pc = "insert" /\ nRecords < CrossRecords)
                      => ENABLED ws_insert(c, CrossRecords)
                /\ conn[c].pc = "refresh" => ENABLED ws_refresh(c)
                /\ conn[c].pc = "offline" => ENABLED ws_offline(c))
    /\ [][/\ rep' # rep
               => OthersUnchanged(IF rep.pc = "idle" THEN rep'.client_id
                                  ELSE rep.client_id)
          /\ \A c \in ConnIds :
                conn'[c] # conn[c]
                    => OthersUnchanged(IF conn[c].pc = "none" THEN conn'[c].client_id
                                       ELSE conn[c].client_id)
          /\ (nClients' = nClients /\ clients' # clients)
                => \E a \in DOMAIN clients : OthersUnchanged(a)]_vars

\* The stream of one agent, online, waits for a message while the other
\* agent, with a stored sample, has a report before its status write and
\* a stream before its refresh.
C25_Witness ==
    \E a, b \in DOMAIN clients, c, d \in ConnIds :
        /\ a # b
        /\ conn[c].client_id = a
        /\ conn[c].pc = "recv"
        /\ clients[a].online
        /\ conn[d].client_id = b
        /\ conn[d].pc = "refresh"
        /\ rep.client_id = b
        /\ rep.pc = "online"
        /\ RowsOf(records, b) # <<>>

\* C26: GET /clients gives each visible agent's stored online flag, with a
\* status block exactly when the agent is online and has a stored sample.
\* Once an agent has opened a stream, a sample sent on it was stored, the
\* connection was closed and the task has finished (no other stream of the
\* agent being open), the listing shows the agent offline and without a
\* status block.
StreamsOf(id) == {c \in ConnIds : conn[c].pc # "none" /\ conn[c].client_id = id}

ClosedAfterSample(id) ==
    /\ \A c \in StreamsOf(id) : conn[c].pc = "done"
    /\ \E c \in StreamsOf(id) : conn[c].exit = "Close" /\ StoredBy(c) # <<>>

C26_ListingShowsLiveStatus ==
    \A resp \in get_clients :
        resp.status = 200 =>
            \A k \in DOMAIN resp.body :
                LET entry == resp.body[k]
                    id == entry.client.id
                IN  /\ entry.client.online = clients[id].online
                    /\ entry.status # None
                          <=> (clients[id].online /\ RecordsOf(id) # {})
                    /\ entry.status # None
                          => \E r \in RecordsOf(id) :
                                /\ entry.status[1].cpu = r.cpu
                                /\ \A q \in RecordsOf(id) : q.time <= r.time
                    /\ ClosedAfterSample(id)
                          => /\ entry.client.online = FALSE
                             /\ entry.status = None

\* An agent opened a stream, its sample was stored, the connection was
\* closed, and the listing shows it offline without status; another agent
\* is listed online with its status block.
C26_Witness ==
    \E resp \in get_clients :
        /\ resp.status = 200
        /\ \E k \in DOMAIN resp.body :
              /\ ClosedAfterSample(resp.body[k].client.id)
              /\ resp.body[k].client.online = FALSE
              /\ resp.body[k].status = None
        /\ \E k \in DOMAIN resp.body :
              /\ resp.body[k].client.online
              /\ resp.body[k].status # None

\* C27: a successful login adds exactly one session: it belongs to the
\* user who logged in, its token is the one returned and no stored session
\* has it, and it expires JwtExpiresSecs after the login.  Every session
\* stored before is still stored, unchanged, and resolves as before.  The
\* token of a stored session that has not expired passes the gate as the
\* session's user, while the database answers.
C27_LoginAddsOneSession ==
    /\ [](\A s \in sessions :
            (dbUp /\ s.expires_at > now)
                => /\ find_user_by_id(s.user_id) # None
                   /\ require_auth_middleware(WithBearer(s.token))
                         = GateResult(200, find_user_by_id(s.user_id))
                   /\ auth_middleware(WithBearer(s.token))
                         = find_user_by_id(s.user_id))
    /\ [][nSessions' # nSessions
            => /\ sessions \subseteq sessions'
               /\ Cardinality(sessions' \ sessions) = 1
               /\ \A new \in sessions' \ sessions :
                     /\ find_user_by_username(AdminUsername) # None
                     /\ new.user_id = find_user_by_username(AdminUsername)[1].id
                     /\ new.expires_at = now + JwtExpiresSecs
                     /\ login_reply(AdminUsername, AdminPassword).token
                           = Some(new.token)
                     /\ \A s \in sessions : s.token # new.token /\ s.id # new.id
               /\ \A s \in sessions :
                     find_session_by_token(s.token)' = find_session_by_token(s.token)
           ]_vars

\* The same user holds two sessions from two logins at different times,
\* and both tokens pass the gate.
C27_Witness ==
    /\ dbUp
    /\ \E s, t \in sessions :
          /\ s.user_id = t.user_id
          /\ s.token # t.token
          /\ s.expires_at < t.expires_at
          /\ require_auth_middleware(WithBearer(s.token)).status = 200
          /\ require_auth_middleware(WithBearer(t.token)).status = 200

\* C28: a new agent starts offline.  The row that a registration or the
\* admin's add-client creates has online = false and no last_seen_at, and
\* a row in that state keeps both until a status write of a report or of
\* a stream task authenticated as that agent; info uploads and admin edits
\* do not touch them.
NeverSeen(row) == row.online = FALSE /\ row.last_seen_at = None

C28_NewAgentStartsOffline ==
    [][/\ \A new \in DOMAIN clients' \ DOMAIN clients : NeverSeen(clients'[new])
       /\ \A id \in DOMAIN clients \cap DOMAIN clients' :
             (NeverSeen(clients[id]) /\ ~NeverSeen(clients'[id]))
                 => \/ /\ rep.pc = "online"
                       /\ rep.client_id = id
                       /\ rep'.pc = "insert"
                    \/ \E c \in ConnIds :
                          /\ conn[c].client_id = id
                          /\ conn[c].pc \in {"online", "refresh", "offline"}
                          /\ conn'[c].pc # conn[c].pc]_vars

\* An agent that has uploaded its basic info and was hidden by the admin,
\* but has neither reported nor connected, is still offline and unseen
\* after the clock has moved.
C28_Witness ==
    /\ now > 0
    /\ rep.pc = "idle"
    /\ \A c \in ConnIds : conn[c].pc = "none"
    /\ \E id \in DOMAIN clients :
          /\ clients[id].cpu_name = "EPYC"
          /\ clients[id].hidden
          /\ NeverSeen(clients[id])

\* C29: the info upload is idempotent and is no time-series write.  After
\* a step that applies an authenticated info payload, applying the same
\* payload again would leave the clients table as it is; the step changes
\* only the descriptive fields (here cpu_name, ipv4, ipv6) of the agent's
\* row and stores no sample.
C29_InfoUploadIdempotent ==
    [][\A req \in AgentCalls, info \in Infos :
          (/\ upload_basic_info_response(req, info) = Status(200)
           /\ clients' = upload_basic_info_clients(req, info)
           /\ UNCHANGED <<dbUp, now, rep, nClients>>)
              => /\ upload_basic_info_clients(req, info)' = clients'
                 /\ upload_basic_info_response(req, info)' = Status(200)
                 /\ records' = records
                 /\ LET id == authenticate_agent(req).client[1].id
                    IN  /\ clients'[id].cpu_name = info.cpu_name
                        /\ (info.ipv4 # None \/ info.ipv6 # None)
                              => /\ clients'[id].ipv4 = info.ipv4
                                 /\ clients'[id].ipv6 = info.ipv6
                        /\ clients'[id]
                              = [clients[id] EXCEPT !.cpu_name = clients'[id].cpu_name,
                                                    !.ipv4 = clients'[id].ipv4,
                                                    !.ipv6 = clients'[id].ipv6]
      ]_vars

\* An agent with a stored sample has uploaded a payload with an IPv6
\* address only and then one without addresses: the addresses of the
\* former stay, and the sample is still the only one.
C29_Witness ==
    /\ Len(records) = 1
    /\ \E id \in DOMAIN clients :
          /\ records[1].client_id = id
          /\ clients[id].cpu_name = "Xeon"
          /\ clients[id].ipv4 = None
          /\ clients[id].ipv6 = Some("::1")

\* C30: the extraction for human sessions takes the token from an
\* "Authorization: Bearer <token>" header or else from the cookie named
\* token; the agent endpoints take it from the header only.  The token of
\* a live session passes the gate in either place.  A request that has a
\* stored agent's token only in the cookie, or in an Authorization header
\* without "Bearer ", is Unauthorized on the report, info and stream
\* endpoints, while the same token after "Bearer " authenticates.
InCookie(token) ==
    Request(None, Some(HeaderValue(TRUE, <<CookiePair("token", token)>>)))

Unprefixed(token, cookie) == Request(Some(HeaderValue(TRUE, token)), cookie)

C30_AgentsHeaderOnly ==
    /\ \A s \in sessions :
          /\ extract_token(WithBearer(s.token)) = Some(s.token)
          /\ extract_token(InCookie(s.token)) = Some(s.token)
          /\ extract_token(Unprefixed(JunkToken, InCookie(s.token).cookie))
                = Some(s.token)
          /\ (dbUp /\ s.expires_at > now)
                => /\ require_auth_middleware(WithBearer(s.token)).status = 200
                   /\ require_auth_middleware(InCookie(s.token)).status = 200
    /\ \A id \in DOMAIN clients :
          /\ \A req \in {InCookie(clients[id].token),
                          Unprefixed(clients[id].token, None),
                          Unprefixed(clients[id].token,
                                     InCookie(clients[id].token).cookie)} :
                /\ extract_agent_token(req) = None
                /\ authenticate_agent(req) = AuthResult("Unauthorized", None)
                /\ upload_report_rejection(req, Text(TRUE, RequiredFields, {}, 1, 0))
                      = Some(Failed("Unauthorized"))
                /\ upload_basic_info_response(req, BasicInfo("", None, None))
                      = Failed("Unauthorized")
                /\ ws_report_response(req) = Failed("Unauthorized")
          /\ extract_agent_token(WithBearer(clients[id].token))
                = Some(clients[id].token)
          /\ dbUp => authenticate_agent(WithBearer(clients[id].token)).kind = "Ok"

\* With a stored agent and a live session: the session's token passes the
\* gate from the cookie, the agent's token in the cookie is Unauthorized
\* and in the header authenticates.
C30_Witness ==
    /\ dbUp
    /\ \E s \in sessions :
          /\ s.expires_at > now
          /\ require_auth_middleware(InCookie(s.token)).status = 200
    /\ \E id \in DOMAIN clients :
          /\ authenticate_agent(InCookie(clients[id].token)).kind = "Unauthorized"
          /\ authenticate_agent(Unprefixed(clients[id].token, None)).kind
                = "Unauthorized"
          /\ authenticate_agent(WithBearer(clients[id].token)).kind = "Ok"

\* C31: a task that has received a keepalive ping holds its payload and
\* reads no further message until the pong is answered; the pong that is
\* sent carries that payload; when the pong cannot be sent the loop ends
\* with the task before its offline write, and that write leaves the agent
\* offline with last_seen_at at the time of the write.  Neither receiving
\* the ping nor answering it stores a sample or writes the agent's row.
\* (SpecStream: the database answers.)
C31_PingAnsweredWithPong ==
    /\ [](\A c \in ConnIds : conn[c].pc = "pong" <=> conn[c].data # None)
    /\ [][\A c \in ConnIds :
            /\ (conn[c].pc = "recv" /\ conn'[c].pc = "pong")
                  => /\ conn'[c].pong = conn[c].pong
                     /\ UNCHANGED <<records, clients>>
            /\ conn[c].pc = "pong"
                  => /\ conn'[c].nrecv = conn[c].nrecv
                     /\ conn'[c] # conn[c]
                           => /\ UNCHANGED <<records, clients>>
                              /\ \/ /\ conn'[c].pc = "recv"
                                    /\ conn'[c].pong = conn[c].data
                                    /\ conn'[c].exit = ""
                                 \/ /\ conn'[c].pc = "offline"
                                    /\ conn'[c].pong = conn[c].pong
                                    /\ conn'[c].exit = "Pong"
            /\ (conn[c].exit = "Pong" /\ conn[c].pc = "offline"
                    /\ conn'[c] # conn[c])
                  => /\ conn'[c].pc = "done"
                     /\ conn[c].client_id \in DOMAIN clients'
                     /\ ~clients'[conn[c].client_id].online
                     /\ clients'[conn[c].client_id].last_seen_at = Some(now)]_vars

\* A connection answered its first ping with a pong of the same payload and
\* could not answer its second: its task has ended, its agent is offline,
\* and it has stored no sample.
C31_Witness ==
    \E c \in ConnIds :
        /\ conn[c].pc = "done" /\ conn[c].exit = "Pong"
        /\ conn[c].nrecv = 2
        /\ conn[c].pong = Some(7)
        /\ StoredBy(c) = <<>>
        /\ ~clients[conn[c].client_id].online

\* The user rows with the configured bootstrap username.
Bootstrap == {u \in users : u.username = AdminUsername}

\* C32: a start of the server on a table without users leaves it with
\* exactly one user, named as configured and with the configured password;
\* a start on a table that holds a user leaves the table as it is, changed
\* passwords included.  So there is never a second user with the bootstrap
\* name, and once the table holds users no step adds or removes one.
C32_BootstrapOnce ==
    /\ [](Cardinality(Bootstrap) <= 1)
    /\ [][/\ (~up /\ up')
                => IF users = {}
                   THEN /\ Cardinality(users') = 1
                        /\ \A u \in users' :
                              /\ u.username = AdminUsername
                              /\ verify_password(AdminPassword, u.password_hash)
                   ELSE users' = users
          /\ users # {}
                => {[id |-> u.id, username |-> u.username] : u \in users'}
                      = {[id |-> u.id, username |-> u.username] : u \in users}]_vars

\* The server has started on an empty table and has stopped after its one
\* user, the bootstrap admin, changed the password: the next start finds it.
C32_Witness ==
    /\ ~up
    /\ Cardinality(users) = 1
    /\ \E u \in Bootstrap : verify_password(OperatorPassword, u.password_hash)

\* C33: a change-password request that passes the gate and whose old
\* password does not verify against the caller's hash is answered
\* BadRequest and changes no user; one whose old password verifies is
\* answered 200 and replaces the hash of the caller's row by the hash of
\* the new password, every other row staying as it is; a request the gate
\* rejects changes nothing.  No step between two starts of the server
\* changes a hash unless the database answers and the user has a session
\* that has not expired, and no step changes the hashes of two users.
C33_WrongOldPasswordRejected ==
    /\ [](\A req \in UserCalls, old \in Passwords, new \in Passwords :
            LET body == ChangePasswordRequest(old, new) IN
            IF require_auth_middleware(req).status # 200
            THEN /\ change_password_response(req, body).status
                       = require_auth_middleware(req).status
                 /\ change_password_users(req, body) = users
            ELSE IF ~verify_password(old, Caller(req).password_hash)
            THEN /\ change_password_response(req, body) = Failed("BadRequest")
                 /\ change_password_users(req, body) = users
            ELSE /\ change_password_response(req, body) = Status(200)
                 /\ Caller(req) \in users
                 /\ change_password_users(req, body)
                       = (users \ {Caller(req)})
                            \cup {[Caller(req) EXCEPT
                                     !.password_hash = hash_password(new)]})
    /\ [][(up /\ up' /\ users' # users)
            => /\ dbUp
               /\ \E u \in users :
                     /\ \E s \in sessions : s.user_id = u.id /\ s.expires_at > now
                     /\ \E new \in Passwords :
                           users' = (users \ {u})
                               \cup {[u EXCEPT !.password_hash = hash_password(new)]}]_vars

\* The operator has changed the password and holds a session; the admin's
\* hash is the configured one; a request of the operator with the
\* operator's former password as old password is answered BadRequest.
C33_Witness ==
    /\ up
    /\ Cardinality(users) = 2
    /\ \A u \in users : verify_password(AdminPassword, u.password_hash)
    /\ \E req \in UserCalls :
          /\ require_auth_middleware(req).status = 200
          /\ Caller(req).username = OperatorUsername
          /\ change_password_response(req,
                 ChangePasswordRequest(OperatorPassword, OperatorPassword))
                = Failed("BadRequest")

\* C34: the offline write at the end of a connection's task leaves the
\* agent offline whether or not another connection of the same agent is
\* still open; and an agent that is offline becomes online only by the
\* status write after a sample of one of its connections, by the first
\* status write of a new connection, or by the status write of an HTTP
\* report.  (SpecCross: the database answers.)
C34_CloseOfOneStreamMarksOffline ==
    [][/\ \A c \in ConnIds :
             (conn[c].pc = "offline" /\ conn'[c].pc = "done")
                => /\ conn[c].client_id \in DOMAIN clients'
                   /\ ~clients'[conn[c].client_id].online
       /\ \A id \in DOMAIN clients :
             (id \in DOMAIN clients' /\ ~clients[id].online /\ clients'[id].online)
                => \/ \E c \in ConnIds :
                         /\ conn[c].client_id = id
                         /\ conn[c].pc \in {"refresh", "online"}
                         /\ conn'[c].pc = "recv"
                   \/ /\ rep.pc = "online"
                      /\ rep.client_id = id
                      /\ rep'.pc = "insert"]_vars

\* One connection of an agent has ended on a close frame while another
\* connection of the same agent, marked online before, is still open and
\* waits for its first message: the agent is offline.
C34_Witness ==
    \E c, d \in ConnIds :
        /\ c # d
        /\ conn[c].client_id = conn[d].client_id
        /\ conn[c].pc = "done" /\ conn[c].exit = "Close"
        /\ conn[d].pc = "recv" /\ conn[d].marked /\ conn[d].nrecv = 0
        /\ d \in OpenStreams(conn[d].client_id)
        /\ ~clients[conn[d].client_id].online

\* C35: a step that changes an agent's online flag or its last_seen_at
\* leaves last_seen_at at the current time, whichever way the flag goes;
\* the offline write at the end of a connection's task, when the database
\* answers and the agent exists, leaves last_seen_at at the time of that
\* write; and the last_seen_at of an agent, once set, is never unset and
\* never goes back.
C35_LastSeenIsTimeOfLastWrite ==
    [][/\ \A id \in DOMAIN clients \cap DOMAIN clients' :
             /\ (\/ clients'[id].online # clients[id].online
                 \/ clients'[id].last_seen_at # clients[id].last_seen_at)
                   => clients'[id].last_seen_at = Some(now)
             /\ clients[id].last_seen_at # None
                   => /\ clients'[id].last_seen_at # None
                      /\ clients'[id].last_seen_at[1] >= clients[id].last_seen_at[1]
       /\ \A c \in ConnIds :
             (/\ conn[c].pc = "offline" /\ conn'[c].pc = "done"
              /\ dbUp /\ conn[c].client_id \in DOMAIN clients)
                => /\ ~clients'[conn[c].client_id].online
                   /\ clients'[conn[c].client_id].last_seen_at = Some(now)]_vars

\* A connection stored a sample and ended later: its agent is offline and
\* was last seen after the time of the sample.
C35_Witness ==
    \E c \in ConnIds :
        /\ conn[c].pc = "done"
        /\ Len(StoredBy(c)) = 1
        /\ conn[c].client_id \in DOMAIN clients
        /\ ~clients[conn[c].client_id].online
        /\ clients[conn[c].client_id].last_seen_at # None
        /\ clients[conn[c].client_id].last_seen_at[1] > StoredBy(c)[1].time

\* C36: an HTTP report writes the status first -- the step that takes the
\* request from its status write to its insert stores no sample and leaves
\* the agent, if it exists, online and seen now -- and a failed insert
\* takes nothing back: the step that ends the request with an error
\* response leaves the tables clients and records as they are.
C36_ReportStatusNotUndone ==
    [][/\ (rep.pc = "online" /\ rep'.pc = "insert")
             => /\ records' = records
                /\ rep.client_id \in DOMAIN clients
                      => /\ clients'[rep.client_id].online
                         /\ clients'[rep.client_id].last_seen_at = Some(now)
       /\ (rep.pc = "insert" /\ rep'.pc = "idle" /\ up'
               /\ upload_report_insert_response # Status(200))
             => /\ upload_report_insert_response.status >= 400
                /\ records' = records
                /\ clients' = clients]_vars

\* The status write of a report has left the agent online and seen now,
\* no sample is stored, and the database has failed before the insert.
C36_Witness ==
    /\ up /\ ~dbUp
    /\ rep.pc = "insert"
    /\ rep.client_id \in DOMAIN clients
    /\ clients[rep.client_id].online
    /\ clients[rep.client_id].last_seen_at = Some(now)
    /\ records = <<>>
    /\ upload_report_insert_response = Failed("Database")

\* C37: the insert of a parsed sample, whether it stores a row or fails,
\* takes the task to the status write of that frame with the loop still
\* running and nothing sent to the agent; a failed insert stores nothing.
\* The status write that follows takes the task back to the receive, and
\* leaves the agent online and seen now when the database answers by then.
\* While a task inserts or refreshes its loop has not ended.
C37_StreamInsertFailureSwallowed ==
    /\ [](\A c \in ConnIds :
            conn[c].pc \in {"insert", "refresh"} => conn[c].exit = "")
    /\ [][\A c \in ConnIds :
            /\ (conn[c].pc = "insert" /\ conn'[c] # conn[c] /\ up')
                  => /\ conn'[c].pc = "refresh"
                     /\ conn'[c].exit = ""
                     /\ conn'[c].pong = conn[c].pong
                     /\ conn'[c].nrecv = conn[c].nrecv
                     /\ ~(dbUp /\ conn[c].client_id \in DOMAIN clients)
                           => records' = records
            /\ (conn[c].pc = "refresh" /\ conn'[c] # conn[c] /\ up')
                  => /\ conn'[c].pc = "recv"
                     /\ conn'[c].exit = ""
                     /\ (dbUp /\ conn[c].client_id \in DOMAIN clients)
                           => /\ clients'[conn[c].client_id].online
                              /\ clients'[conn[c].client_id].last_seen_at
                                    = Some(now)]_vars

\* A connection received two samples; the insert of the first failed, the
\* status write after it marked the agent, and the second is stored.
C37_Witness ==
    \E c \in ConnIds :
        /\ conn[c].pc = "recv" /\ conn[c].nrecv = 2
        /\ Len(StoredBy(c)) = 1
        /\ StoredBy(c)[1].frame = 2
        /\ clients[conn[c].client_id].online
        /\ clients[conn[c].client_id].last_seen_at = Some(now)

\* The request of a caller who presents token as bearer.
BearerCall(token) ==
    Request(Some(HeaderValue(TRUE, <<"Bearer ">> \o token)), None)

\* C38: a step of the running server that changes the table users leaves
\* the table sessions as it is; and whether a session authenticates does
\* not depend on the password: while the database answers, every stored
\* session that has not expired passes the gate as its owner.  So the
\* sessions of a user, on whatever device, outlive a password change until
\* they expire or their row is deleted.
C38_PasswordChangeKeepsSessions ==
    /\ [](dbUp => \A s \in sessions :
            s.expires_at > now
                => /\ require_auth_middleware(BearerCall(s.token)).status = 200
                   /\ Caller(BearerCall(s.token)).id = s.user_id)
    /\ [][(up /\ up' /\ users' # users) => sessions' = sessions]_vars

\* The operator's password is no longer the one the account came with, and
\* two sessions of the operator pass the gate.
C38_Witness ==
    /\ up /\ dbUp
    /\ \E u \in users :
          /\ u.username = OperatorUsername
          /\ ~verify_password(OperatorPassword, u.password_hash)
          /\ Cardinality({s \in sessions :
                 /\ s.user_id = u.id
                 /\ require_auth_middleware(BearerCall(s.token)).status = 200}) = 2

\* The session ids a caller may name: those the server can issue within
\* the bound and one it never issued.
SessionIds == 1..(UserSessions + 1)

\* C39: for a request that passes the gate, the admin delete-session
\* operation answers 200 and deletes exactly the named session when the id
\* is that of a stored session of the caller that has not expired; for
\* every other id -- a session of another user, an expired session, an id
\* that is not stored -- it answers NotFound and the table sessions stays
\* as it is.  A request the gate rejects deletes nothing.
C39_DeleteSessionOwnOnly ==
    \A req \in UserCalls, id \in SessionIds :
        IF require_auth_middleware(req).status # 200
        THEN /\ admin_delete_session_response(req, id).status
                   = require_auth_middleware(req).status
             /\ admin_delete_session_sessions(req, id) = sessions
        ELSE IF \E s \in sessions : /\ s.id = id
                                    /\ s.user_id = Caller(req).id
                                    /\ s.expires_at > now
        THEN /\ admin_delete_session_response(req, id) = Status(200)
             /\ admin_delete_session_sessions(req, id)
                   = {s \in sessions : s.id # id}
        ELSE /\ admin_delete_session_response(req, id) = Failed("NotFound")
             /\ admin_delete_session_sessions(req, id) = sessions

\* A caller with a session that has not expired names a session of another
\* user that has not expired, an expired session of their own and an id
\* that is not stored, and is answered NotFound each time; naming the own
\* session is answered 200.
C39_Witness ==
    /\ up /\ dbUp
    /\ \E req \in UserCalls, own, other, old \in sessions, id \in SessionIds :
          /\ require_auth_middleware(req).status = 200
          /\ own.user_id = Caller(req).id /\ own.expires_at > now
          /\ other.user_id # Caller(req).id /\ other.expires_at > now
          /\ old.user_id = Caller(req).id /\ old.expires_at <= now
          /\ \A s \in sessions : s.id # id
          /\ admin_delete_session_response(req, own.id) = Status(200)
          /\ admin_delete_session_response(req, other.id) = Failed("NotFound")
          /\ admin_delete_session_response(req, old.id) = Failed("NotFound")
          /\ admin_delete_session_response(req, id) = Failed("NotFound")

\* req without its Cookie header, and without its Authorization header.
HeaderOnly(req) == Request(req.authorization, None)
CookieOnly(req) == Request(None, req.cookie)

\* C40: a human request with an Authorization header that reads
\* "Bearer <token>" is treated by both layers exactly like the same
\* request without its cookie: the token looked up is the header's, and
\* when that token is not the token of a stored session that has not
\* expired, no identity is attached and the gate answers 401 whatever the
\* cookie holds.  A request without such a header (none, one without the
\* prefix, or one that is not visible ASCII) is treated like the same
\* request with the cookie alone.  (The lookups are read with the database
\* answering.)
C40_HeaderTakesPrecedence ==
    \A req \in UserCalls :
        IF ~NoBearer(req)
        THEN /\ extract_token(req) = Some(Tail(req.authorization[1].text))
             /\ auth_middleware(req) = auth_middleware(HeaderOnly(req))
             /\ require_auth_middleware(req) = require_auth_middleware(HeaderOnly(req))
             /\ (/\ dbUp
                 /\ \A s \in sessions :
                       s.token = Tail(req.authorization[1].text)
                           => s.expires_at <= now)
                   => /\ auth_middleware(req) = None
                      /\ auth_middleware_extensions(req) = {}
                      /\ require_auth_middleware(req) = GateResult(401, None)
                      /\ admin_response(req) = Status(401)
        ELSE /\ extract_token(req) = extract_token(CookieOnly(req))
             /\ auth_middleware(req) = auth_middleware(CookieOnly(req))
             /\ require_auth_middleware(req) = require_auth_middleware(CookieOnly(req))

\* A request carries a bearer nobody issued in its header and, in its
\* cookie, the token of a session that passes the gate on its own: it is
\* answered 401 and gets no identity.
C40_Witness ==
    /\ up /\ dbUp
    /\ \E req \in UserCalls :
          /\ ~NoBearer(req)
          /\ Tail(req.authorization[1].text) = JunkToken
          /\ req.cookie # None
          /\ require_auth_middleware(CookieOnly(req)).status = 200
          /\ auth_middleware(CookieOnly(req)) # None
          /\ require_auth_middleware(req).status = 401
          /\ auth_middleware(req) = None

====
